---- MODULE Spec2Model ----
(***************************************************************************)
(* The progress-and-scoring ledger of the DIFFYE-CTF bot.                  *)
(*                                                                         *)
(* The store (tables users, statistics, progress) is shared by concurrent  *)
(* coroutines.  Every db_manager.execute_one / execute_command call runs   *)
(* one auto-committed statement on its own pooled connection, so each      *)
(* statement is one atomic step and other coroutines may run between two   *)
(* statements of the same check_flag call.  execute_transaction runs its   *)
(* statements inside conn.transaction() and is one atomic step.            *)
(*                                                                         *)
(* Texts are sequences of one-character strings, so that upper() and       *)
(* strip() are computed character by character.                            *)
(***************************************************************************)
EXTENDS Integers, Sequences, FiniteSets, Bags, TLC

\* ------------------------------------------------------------------ bounds
\* coroutines that may be inside check_flag at the same time
NumTasks == 2
\* check_flag calls of one behaviour that get past the completed-check (the
\* others leave the store as it is, and are not limited)
MaxCalls == 2
\* messages to process_flag of one behaviour that get past the completed-check
MaxMessages == 3
\* values of the store's clock after the first
MaxClock == 1
\* coroutines that ask the pool for a connection
NumClients == 4
\* coroutines that run an operation of the ledger on the pool
NumCallers == 2

\* ------------------------------------------------------------------- texts
LowerCase == <<"a","b","c","d","e","f","g","h","i","j","k","l","m",
               "n","o","p","q","r","s","t","u","v","w","x","y","z">>
UpperCase == <<"A","B","C","D","E","F","G","H","I","J","K","L","M",
               "N","O","P","Q","R","S","T","U","V","W","X","Y","Z">>
Whitespace == {" ", "\t", "\n"}

Range(s) == {s[i] : i \in 1..Len(s)}

\* one character of str.upper()
UpperChar(ch) ==
    IF \E i \in 1..Len(LowerCase) : LowerCase[i] = ch
    THEN UpperCase[CHOOSE i \in 1..Len(LowerCase) : LowerCase[i] = ch]
    ELSE ch

\* str.upper()
StrUpper(s) == [i \in 1..Len(s) |-> UpperChar(s[i])]

\* one character of str.lower(), used to build letter-case variations
LowerChar(ch) ==
    IF \E i \in 1..Len(UpperCase) : UpperCase[i] = ch
    THEN LowerCase[CHOOSE i \in 1..Len(UpperCase) : UpperCase[i] = ch]
    ELSE ch

StrLower(s) == [i \in 1..Len(s) |-> LowerChar(s[i])]

\* str.strip(): drops leading and trailing whitespace
StrStrip(s) ==
    LET keep == {i \in 1..Len(s) : s[i] \notin Whitespace}
        lo == CHOOSE i \in keep : \A j \in keep : i <= j
        hi == CHOOSE i \in keep : \A j \in keep : j <= i
    IN IF keep = {} THEN << >> ELSE SubSeq(s, lo, hi)

\* ----------------------------------------------------------------- catalog
Flag(body) == <<"F","L","A","G","{">> \o body \o <<"}">>

\* a faulty catalog: challenge 3 with an empty list of accepted answers
CHALLENGESWithoutAnswer ==
    [id \in 0..5 |->
        IF id = 3 THEN [flag |-> << >>]
        ELSE [flag |-> << Flag(<<"P","F","A">>) >>]]

\* CHALLENGES[id]['flag']: the accepted answers of each challenge
CHALLENGES ==
    [id \in 0..5 |->
        CASE id = 0 -> [flag |-> << Flag(<<"P","F","A">>) >>]
          [] id = 1 -> [flag |-> << Flag(<<"V","I","L","L","A","_","U","R","Q","U","I","Z","A">>) >>]
          [] id = 2 -> [flag |-> << Flag(<<"A","V","_","A","L","V","A","R","E","Z","_","T","H","O","M","A","S">>) >>]
          [] id = 3 -> [flag |-> << Flag(<<"C","A","B","A","L","L","I","T","O">>) >>]
          [] id = 4 -> [flag |-> << Flag(<<"D","R","O","G","A","S">>),
                                    Flag(<<"D","R","O","G","A">>),
                                    Flag(<<"V","E","N","T","A","_","D","E","_","E","S","T","U","P","E","F","A","C","I","E","N","T","E","S">>),
                                    Flag(<<"E","S","T","U","P","E","F","A","C","I","E","N","T","E","S">>) >>]
          [] id = 5 -> [flag |-> << Flag(<<"M","A","H","A","L","O","_","H","E","R","M","A","N","O","S">>),
                                    Flag(<<"H","E","R","M","A","N","O","S","_","M","A","H","A","L","O">>),
                                    Flag(<<"M","A","H","A","L","O">>) >>]]

\* the flag create_sample_data stores for its test user
SampleFlag == Flag(<<"I","N","I","C","I","O","_","I","N","V","E","S","T","I","G","A","C","I","O","N">>)
SampleUser == 123456789

\* ------------------------------------------------------------------ inputs
UserIds == {42, SampleUser}
FullNames == {"Usuario de Prueba", "Ana"}
LedgerNames == {"Usuario de Prueba"}
Username(u) == IF u = SampleUser THEN "test_user" ELSE "user_42"

\* the challenges submissions are made for: one with a single accepted
\* answer (the tutorial) and one with several (the last challenge)
SubmittedChallenges == {0, 5}

\* where calls run concurrently: the test user submits for both challenges,
\* user 42 for the tutorial
LedgerChallenges(u) == IF u = SampleUser THEN SubmittedChallenges ELSE {0}

WrongFlag == <<"f","l","a","g","{","w","r","o","n","g","}">>

\* texts submitted where the ledger's bookkeeping is examined: an accepted
\* answer and a wrong text for a challenge with one accepted answer, two
\* accepted answers for a challenge with several
LedgerTexts(c) ==
    LET fl == CHALLENGES[c].flag
    IN IF Len(fl) = 1 THEN {fl[1], WrongFlag} ELSE {fl[1], fl[2]}

\* texts submitted where the matching is examined: every accepted answer, a
\* letter-case variation, a whitespace-padded accepted answer, a text
\* contained in an accepted answer, a text containing one, a wrong text
InputTexts(c) ==
    LET fl == CHALLENGES[c].flag
        v  == fl[1]
    IN Range(fl) \cup
       { StrLower(fl[Len(fl)]),
         <<" ">> \o v \o <<"\n">>,
         SubSeq(v, 1, Len(v) - 1),
         v \o <<"S">>,
         WrongFlag }

\* ------------------------------------------------------------------- state
VARIABLES
    users,       \* table users: user_id -> row, or NoRow
    statistics,  \* table statistics: user_id -> row, or NoRow
    progress,    \* table progress: set of rows
    tasks,       \* the check_flag calls in progress: a bag of call records
    sample_pc,   \* position of create_sample_data
    calls,       \* check_flag calls that got past the completed-check
    served,      \* per user: check_flag calls that returned correct/incorrect
    scenario,    \* position in the register/wrong/right/right-again scenario
    clock,       \* the store's CURRENT_TIMESTAMP
    reply,       \* what the last handler or read operation gave back
    pool,        \* db_manager.pool: is it there, and who holds a connection
    clients,     \* per coroutine: its store operation in progress on the pool
    schema,      \* the tables and indexes that exist in the store
    user_data,   \* the admin's context.user_data
    sent,        \* the chats a circular message was sent to, with the outcome
    reading,     \* the get_user_progress call between its two queries
    submitting,  \* per user: context.user_data['submitting_challenge']
    conversation,\* per user: the state of the flag-submission conversation
    environ      \* os.environ['ADMIN_IDS'] as the process found it

vars == <<users, statistics, progress, tasks, sample_pc, calls, served, scenario,
          clock, reply, pool, clients, schema, user_data, sent, reading,
          submitting, conversation, environ>>

\* what only the handlers of the conversation and the split reads write
handlervars == <<reading, submitting, conversation, environ>>

\* what only init_db and the handlers write
sidevars == <<schema, user_data, sent, handlervars>>

\* what the ledger's operations leave alone
poolvars == <<pool, clients, sidevars>>

\* what the read operations and the pool's operations leave alone
ledger == <<users, statistics, progress, tasks, sample_pc, calls, served,
            scenario, clock, sidevars>>

NoRow == [present |-> FALSE]

\* the tables and the indexes init_db creates
Tables == {"users", "progress", "statistics", "activity_logs"}

Indexes ==
    {"idx_users_username", "idx_users_active", "idx_progress_user",
     "idx_progress_challenge", "idx_progress_correct", "idx_progress_date",
     "idx_activity_user", "idx_activity_timestamp", "idx_activity_action"}

\* context.user_data with no circular message kept in it
NoData == [broadcast_message |-> "", broadcast_users |-> << >>]

\* no get_user_progress call is between its queries
NoRead == [pc |-> "idle"]

\* user_data.get('submitting_challenge') is None
NoChallenge == {}

\* the conversation of a user: ConversationHandler.END, or WAITING_FLAG
\* after start_submit_with_id
End == "END"
WaitingFlag == "WAITING_FLAG"

\* ADMIN_IDS is not in the environment
Unset == [set |-> FALSE]

\* ADMIN_IDS=42 in the environment
SetTo(text) == [set |-> TRUE, value |-> text]

\* nothing has been given back yet
NoReply == [op |-> "none"]

\* db_manager before initialize(): self.pool is None
NoPool == [open |-> FALSE]

\* the coroutines that use the pool
Clients == 1 .. NumClients

\* a coroutine that is in no store operation
Idle == [pc |-> "idle"]

\* registration_date takes its DEFAULT CURRENT_TIMESTAMP
UserRow(un, fn, now) ==
    [present |-> TRUE, username |-> un, full_name |-> fn, is_active |-> TRUE,
     registration_date |-> now]

\* INSERT INTO statistics (user_id): every counter takes its DEFAULT 0
ZeroStatistics ==
    [present |-> TRUE, challenges_completed |-> 0, total_attempts |-> 0,
     correct_attempts |-> 0, incorrect_attempts |-> 0]

\* a call: its position in check_flag, its arguments and locals, and what
\* the call met (for the claims): the store as the call
\* found it (registered, completed, base: the user's challenges_completed,
\* taken over from an identical call in flight), fault (a store statement of
\* the call failed), inserted (its INSERT added a row), company (what else
\* ran for the same user during the call: "none", "twin" when only calls
\* with the same arguments did, else "other"), twin_correct (a call with the
\* same arguments returned 'correct' during the call)
NewCall ==
    [pc |-> "select", via |-> "none", user_id |-> 0, challenge_id |-> 0,
     raw |-> << >>, flag |-> << >>, is_correct |-> FALSE, result |-> "none",
     fault |-> FALSE, inserted |-> FALSE, company |-> "none",
     twin_correct |-> FALSE,
     registered |-> FALSE, completed |-> FALSE, base |-> 0]

Init ==
    /\ users = [u \in UserIds |-> NoRow]
    /\ statistics = [u \in UserIds |-> NoRow]
    /\ progress = {}
    /\ tasks = EmptyBag
    /\ sample_pc = "idle"
    /\ calls = 0
    /\ served = [u \in UserIds |-> 0]
    /\ scenario = "s0"
    /\ clock = 0
    /\ reply = NoReply
    /\ pool = NoPool
    /\ clients = [t \in Clients |-> Idle]
    /\ schema = Tables \cup Indexes
    /\ user_data = NoData
    /\ sent = << >>
    /\ reading = NoRead
    /\ submitting = [u \in UserIds |-> NoChallenge]
    /\ conversation = [u \in UserIds |-> End]
    /\ environ = SetTo(<<"4", "2">>)

\* ----------------------------------------------------------- the schedule
\* timedelta(days=1), in units of the clock
Day == 3

\* START_DATE: set so that the last challenge unlocks at time 1
StartDate == 1 - 4 * Day

\* the instants is_challenge_available is asked at
Times == (StartDate - Day - 1) .. (StartDate + 4 * Day + 1)

\* a faulty schedule: the tutorial unlocks at START_DATE
GetChallengeAvailabilityDateNoHeadStart(challenge_id) ==
    IF challenge_id = 0 THEN StartDate
    ELSE StartDate + (challenge_id - 1) * Day

\* get_challenge_availability_date
GetChallengeAvailabilityDate(challenge_id) ==
    IF challenge_id = 0 THEN StartDate - Day
    ELSE StartDate + (challenge_id - 1) * Day

\* is_challenge_available, with datetime.now(TZ) as current_time
IsChallengeAvailable(challenge_id, current_time) ==
    current_time >= GetChallengeAvailabilityDate(challenge_id)

\* ------------------------------------------------- statements of the store
\* a faulty SELECT: the two query arguments bound in the wrong order
SelectCorrectSwapped(P, u, c) ==
    {r \in P : r.user_id = c /\ r.challenge_id = u /\ r.is_correct}

\* SELECT * FROM progress WHERE user_id = $1 AND challenge_id = $2
\*   AND is_correct = TRUE
SelectCorrect(P, u, c) ==
    {r \in P : r.user_id = u /\ r.challenge_id = c /\ r.is_correct}

\* a faulty check_flag: an answer for a challenge that is still locked is
\* never correct
IsCorrectWhenUnlocked(c, flag) ==
    /\ StrUpper(flag) \in {StrUpper(f) : f \in Range(CHALLENGES[c].flag)}
    /\ IsChallengeAvailable(c, clock)

\* a faulty matching: the upper() calls left out
IsCorrectCaseSensitive(c, flag) ==
    flag \in Range(CHALLENGES[c].flag)

\* flag.upper() in [f.upper() for f in challenge_flags]
IsCorrect(c, flag) ==
    StrUpper(flag) \in {StrUpper(f) : f \in Range(CHALLENGES[c].flag)}

\* a faulty table: UNIQUE(user_id, challenge_id), so that the INSERT skips
\* every text after the first one of the pair
InsertProgressOncePerPair(P, u, c, flag, ic, now) ==
    IF \E r \in P : r.user_id = u /\ r.challenge_id = c
    THEN P
    ELSE P \cup {[user_id |-> u, challenge_id |-> c,
                  flag_submitted |-> flag, is_correct |-> ic,
                  submission_date |-> now]}

\* INSERT INTO progress ... ON CONFLICT (user_id, challenge_id,
\*   flag_submitted) DO NOTHING
\*   (submission_date takes its DEFAULT CURRENT_TIMESTAMP)
InsertProgress(P, u, c, flag, ic, now) ==
    IF \E r \in P : r.user_id = u /\ r.challenge_id = c /\ r.flag_submitted = flag
    THEN P
    ELSE P \cup {[user_id |-> u, challenge_id |-> c,
                  flag_submitted |-> flag, is_correct |-> ic,
                  submission_date |-> now]}

\* a faulty table: progress.user_id without REFERENCES users
ForeignKeyUnchecked(U, u) == TRUE

\* progress.user_id REFERENCES users(user_id)
ForeignKeyOk(U, u) == U[u].present

\* SELECT DISTINCT challenge_id FROM progress WHERE user_id = $1
\*   AND is_correct = TRUE
CompletedChallenges(P, u) ==
    {r.challenge_id : r \in {x \in P : x.user_id = u /\ x.is_correct}}

\* a faulty UPDATE: total_attempts left out of the SET list
UpdateCorrectForgetsTotal(S, P, u) ==
    IF S[u].present
    THEN [S EXCEPT ![u].challenges_completed = Cardinality(CompletedChallenges(P, u)),
                   ![u].correct_attempts = @ + 1]
    ELSE S

\* a faulty UPDATE: correct_attempts left out of the SET list
UpdateCorrectForgetsSubcount(S, P, u) ==
    IF S[u].present
    THEN [S EXCEPT ![u].challenges_completed = Cardinality(CompletedChallenges(P, u)),
                   ![u].total_attempts = @ + 1]
    ELSE S

\* UPDATE statistics SET challenges_completed = (SELECT COUNT(DISTINCT ...)),
\*   total_attempts + 1, correct_attempts + 1 WHERE user_id = $1
UpdateCorrect(S, P, u) ==
    IF S[u].present
    THEN [S EXCEPT ![u].challenges_completed = Cardinality(CompletedChallenges(P, u)),
                   ![u].total_attempts = @ + 1,
                   ![u].correct_attempts = @ + 1]
    ELSE S

\* a faulty UPDATE: no WHERE user_id = $1
UpdateIncorrectEveryUser(S, u) ==
    [v \in DOMAIN S |->
        IF S[v].present
        THEN [S[v] EXCEPT !.total_attempts = @ + 1, !.incorrect_attempts = @ + 1]
        ELSE S[v]]

\* a faulty UPDATE: incorrect_attempts left out of the SET list
UpdateIncorrectForgetsSubcount(S, u) ==
    IF S[u].present
    THEN [S EXCEPT ![u].total_attempts = @ + 1]
    ELSE S

\* a faulty UPDATE: total_attempts left out of the SET list
UpdateIncorrectForgetsTotal(S, u) ==
    IF S[u].present
    THEN [S EXCEPT ![u].incorrect_attempts = @ + 1]
    ELSE S

\* UPDATE statistics SET total_attempts + 1, incorrect_attempts + 1
\*   WHERE user_id = $1
UpdateIncorrect(S, u) ==
    IF S[u].present
    THEN [S EXCEPT ![u].total_attempts = @ + 1,
                   ![u].incorrect_attempts = @ + 1]
    ELSE S

\* a faulty upsert: registration_date in the SET list
UpsertUserRenewsDate(U, u, un, fn, now) ==
    [U EXCEPT ![u] = UserRow(un, fn, now)]

\* INSERT INTO users ... ON CONFLICT (user_id) DO UPDATE SET username,
\*   full_name, is_active = TRUE
UpsertUser(U, u, un, fn, now) ==
    [U EXCEPT ![u] = IF @.present
                     THEN [@ EXCEPT !.username = un, !.full_name = fn,
                                    !.is_active = TRUE]
                     ELSE UserRow(un, fn, now)]

\* INSERT INTO statistics (user_id) ... ON CONFLICT (user_id) DO NOTHING
InsertStatistics(S, u) ==
    [S EXCEPT ![u] = IF @.present THEN @ ELSE ZeroStatistics]

\* ------------------------------------------------------ execute_transaction
\* a table just created: no rows
EmptyTable(store, name) ==
    CASE name = "users" -> [store EXCEPT !.users = [u \in UserIds |-> NoRow]]
      [] name = "statistics" ->
             [store EXCEPT !.statistics = [u \in UserIds |-> NoRow]]
      [] name = "progress" -> [store EXCEPT !.progress = {}]
      [] OTHER -> store

\* a faulty DDL statement: DROP TABLE IF EXISTS before the CREATE TABLE
CreateTableAfterDrop(store, name) ==
    [EmptyTable(store, name) EXCEPT !.schema = @ \cup {name}]

\* CREATE TABLE IF NOT EXISTS name (...)
CreateTableIfNotExists(store, name) ==
    IF name \in store.schema THEN store
    ELSE [EmptyTable(store, name) EXCEPT !.schema = @ \cup {name}]

\* CREATE INDEX IF NOT EXISTS name ON ...
CreateIndexIfNotExists(store, name) ==
    IF name \in store.schema THEN store
    ELSE [store EXCEPT !.schema = @ \cup {name}]

\* one statement of a batch
Execute(store, q, now) ==
    CASE q.op = "upsert_user" ->
             [store EXCEPT !.users = UpsertUser(@, q.args[1], q.args[2], q.args[3], now)]
      [] q.op = "insert_statistics" ->
             [store EXCEPT !.statistics = InsertStatistics(@, q.args[1])]
      [] q.op = "create_table" -> CreateTableIfNotExists(store, q.args[1])
      [] q.op = "create_index" -> CreateIndexIfNotExists(store, q.args[1])

\* the first n statements of the batch, in order
RECURSIVE ExecuteAll(_, _, _, _)
ExecuteAll(store, queries, n, now) ==
    IF n = 0 THEN store
    ELSE Execute(ExecuteAll(store, queries, n - 1, now), queries[n], now)

\* where a batch can fail: 0 nowhere, i in its i-th statement (the pool
\* giving no connection counts as the first), Len + 1 in its COMMIT
Failures(queries) == 0 .. (Len(queries) + 1)

\* a faulty batch: no conn.transaction(), so what ran before the failing
\* statement stays
ExecuteTransactionNoRollback(store, queries, failure, now) ==
    IF failure = 0
    THEN [ok |-> TRUE, store |-> ExecuteAll(store, queries, Len(queries), now)]
    ELSE [ok |-> FALSE,
          store |-> ExecuteAll(store, queries,
                               IF failure > Len(queries) THEN Len(queries)
                               ELSE failure - 1, now)]

\* DatabaseManager.execute_transaction: the statements run inside
\* conn.transaction(); an exception leaves the block, which rolls back, and
\* is turned into False
ExecuteTransaction(store, queries, failure, now) ==
    IF failure = 0
    THEN [ok |-> TRUE, store |-> ExecuteAll(store, queries, Len(queries), now)]
    ELSE [ok |-> FALSE, store |-> store]

\* a faulty batch: the statistics statement left out
RegisterQueriesUsersOnly(u, un, fn) ==
    << [op |-> "upsert_user", args |-> <<u, un, fn>>] >>

\* the batch of Database.register_user
RegisterQueries(u, un, fn) ==
    << [op |-> "upsert_user", args |-> <<u, un, fn>>],
       [op |-> "insert_statistics", args |-> <<u>>] >>

\* Database.register_user on the store as it is: the new tables and the bool
\* it returns
RegisterUserCall(u, un, fn, failure) ==
    ExecuteTransaction([users |-> users, statistics |-> statistics],
                       RegisterQueries(u, un, fn), failure, clock)

\* ---------------------------------------------------- calls in progress
Running == BagToSet(tasks)

InFlight(k) == k.pc \in {"insert", "update"}

\* a finished call hands its result to its caller, and a handler its reply to
\* the user, before anything else runs: the hand-over touches nothing shared
NoneDone ==
    /\ \A k \in Running : k.pc # "done"
    /\ reply = NoReply

Put(B, k) == B (+) SetToBag({k})
Take(B, k) == B (-) SetToBag({k})

RECURSIVE SumCopies(_, _)
SumCopies(B, S) ==
    IF S = {} THEN 0
    ELSE LET x == CHOOSE y \in S : TRUE
         IN B[x] + SumCopies(B, S \ {x})

\* the bag of f[k] for the k of bag B
MapBag(B, f) ==
    IF B = EmptyBag THEN B
    ELSE [y \in {f[x] : x \in DOMAIN B} |->
             SumCopies(B, {x \in DOMAIN B : f[x] = y})]

\* when an operation for user u starts, the calls in flight for u note their
\* company: twin tells that the operation is a check_flag call with the same
\* arguments
Mark(k, u, twin) ==
    IF InFlight(k) /\ k.user_id = u
    THEN [k EXCEPT !.company = IF twin /\ @ # "other" THEN "twin" ELSE "other"]
    ELSE k

Twins(k, j) ==
    /\ j.user_id = k.user_id /\ j.challenge_id = k.challenge_id
    /\ j.flag = k.flag

\* when call j returns 'correct', the calls in flight with the same arguments
\* note it
MarkCorrect(k, j) ==
    IF InFlight(k) /\ Twins(k, j) THEN [k EXCEPT !.twin_correct = TRUE] ELSE k

\* ---------------------------------------------------- scenario bookkeeping
\* scenario follows the sequence register_user(42); check_flag(42, 0,
\* "flag{wrong}"); check_flag(42, 0, "FLAG{PFA}"); check_flag(42, 0,
\* "FLAG{PFA}") run from the empty store with nothing else in between and no
\* store failure: "s0" before it, "s<n>" after its n-th operation returned,
\* "off" as soon as the behaviour is another one
ScenarioFlag(s) == IF s = "s1" THEN WrongFlag ELSE CHALLENGES[0].flag[1]

ScenarioAfter(s) ==
    CASE s = "s1" -> "s2"
      [] s = "s2" -> "s3"
      [] s = "s3" -> "s4"
      [] OTHER -> "off"

\* ------------------------------------------------------------ register_user
\* Database.register_user: both statements in one execute_transaction; a
\* store failure rolls both back and the call returns False
RegisterUser(u, fn) ==
    /\ NoneDone
    /\ \E failure \in Failures(RegisterQueries(u, Username(u), fn)) :
        LET r == RegisterUserCall(u, Username(u), fn, failure)
        IN /\ users' = r.store.users
           /\ statistics' = r.store.statistics
           /\ scenario' = IF scenario = "s0" /\ u = 42 /\ r.ok THEN "s1" ELSE "off"
    /\ UNCHANGED <<progress, tasks, sample_pc, calls, served, clock, reply>>
    /\ UNCHANGED poolvars

\* --------------------------------------------------------------- check_flag
\* Entry of Database.check_flag up to and including its SELECT (execute_one)
CheckFlagBegin(via, u, c, raw, flag) ==
    /\ NoneDone
    /\ BagCardinality(tasks) < NumTasks
    /\ \E ok \in BOOLEAN :
        LET existing == SelectCorrect(progress, u, c)
            peers == {k \in Running : InFlight(k) /\ k.user_id = u}
            twins == {k \in peers : k.challenge_id = c /\ k.flag = flag}
            cc == IF statistics[u].present
                  THEN statistics[u].challenges_completed ELSE 0
            new == [NewCall EXCEPT
                        !.via = via, !.user_id = u, !.challenge_id = c,
                        !.raw = raw, !.flag = flag,
                        !.company =
                            IF u = SampleUser /\ sample_pc = "registered"
                            THEN "other"
                            ELSE IF peers = {} THEN "none"
                            ELSE IF peers = twins /\ \A k \in twins : k.company # "other"
                            THEN "twin"
                            ELSE "other",
                        !.registered = users[u].present,
                        !.completed = \E r \in progress :
                                         /\ r.user_id = u /\ r.challenge_id = c
                                         /\ r.is_correct,
                        !.base = IF twins = {} THEN cc
                                 ELSE (CHOOSE k \in twins : TRUE).base]
            mine == IF ~ok
                    THEN [new EXCEPT !.pc = "done", !.result = "error", !.fault = TRUE]
                    ELSE IF existing # {}
                    THEN [new EXCEPT !.pc = "done", !.result = "already_completed"]
                    ELSE [new EXCEPT !.pc = "insert", !.is_correct = IsCorrect(c, flag)]
            fits == /\ scenario \in {"s1", "s2", "s3"}
                    /\ via = "direct" /\ u = 42 /\ c = 0
                    /\ flag = ScenarioFlag(scenario)
                    /\ tasks = EmptyBag
                    /\ ok
            Met == [k \in Running |-> Mark(k, u, k.challenge_id = c /\ k.flag = flag)]
        IN /\ mine.pc = "insert" =>
                  calls < (IF via = "bot" THEN MaxMessages ELSE MaxCalls)
           /\ tasks' = Put(MapBag(tasks, Met), mine)
           /\ calls' = IF mine.pc = "insert" THEN calls + 1 ELSE calls
           /\ scenario' = IF ~fits THEN "off"
                          ELSE IF existing # {} THEN ScenarioAfter(scenario)
                          ELSE scenario
    /\ UNCHANGED <<users, statistics, progress, sample_pc, served, clock, reply>>
    /\ UNCHANGED poolvars

\* a direct call of Database.check_flag with the caller's text
CheckFlagDirect(u, c, flag) ==
    CheckFlagBegin("direct", u, c, flag, flag)

\* a faulty process_flag: the text as typed goes to check_flag
ProcessFlagArgumentAsTyped(c, raw) ==
    StrStrip(raw)

\* a faulty process_flag: the strip() of the message text left out
ProcessFlagArgumentUnstripped(c, raw) ==
    LET flag_list == CHALLENGES[c].flag
    IN IF StrUpper(raw) \in {StrUpper(f) : f \in Range(flag_list)}
       THEN flag_list[1]
       ELSE raw

\* what process_flag passes to check_flag: the first accepted answer when the
\* stripped message text matches an accepted answer, else the stripped text
ProcessFlagArgument(c, raw) ==
    LET flag == StrStrip(raw)
        flag_list == CHALLENGES[c].flag
    IN IF StrUpper(flag) \in {StrUpper(f) : f \in Range(flag_list)}
       THEN flag_list[1]
       ELSE flag

\* process_flag up to and including the SELECT of its check_flag call
ProcessFlag(u, c, raw) ==
    CheckFlagBegin("bot", u, c, raw, ProcessFlagArgument(c, raw))

\* the INSERT of check_flag (execute_command, auto-committed)
CheckFlagInsert(k) ==
    /\ NoneDone
    /\ k.pc = "insert"
    /\ \E ok \in BOOLEAN :
        LET done == ok /\ ForeignKeyOk(users, k.user_id)
            P == InsertProgress(progress, k.user_id, k.challenge_id,
                                k.flag, k.is_correct, clock)
        IN /\ progress' = IF done THEN P ELSE progress
           /\ tasks' = Put(Take(tasks, k),
                  IF done
                  THEN [k EXCEPT !.pc = "update", !.inserted = (P # progress)]
                  ELSE [k EXCEPT !.pc = "done", !.result = "error",
                                 !.fault = ~ok])
           /\ scenario' = IF done THEN scenario ELSE "off"
    /\ UNCHANGED <<users, statistics, sample_pc, calls, served, clock, reply>>
    /\ UNCHANGED poolvars

\* the UPDATE of check_flag (execute_command, auto-committed) and the return
CheckFlagUpdate(k) ==
    /\ NoneDone
    /\ k.pc = "update"
    /\ \E ok \in BOOLEAN :
        /\ statistics' =
               IF ~ok THEN statistics
               ELSE IF k.is_correct
               THEN UpdateCorrect(statistics, progress, k.user_id)
               ELSE UpdateIncorrect(statistics, k.user_id)
        /\ LET Told == [j \in Running |-> MarkCorrect(j, k)]
           IN tasks' =
               IF ok
               THEN Put(IF k.is_correct THEN MapBag(Take(tasks, k), Told)
                                        ELSE Take(tasks, k),
                        [k EXCEPT !.pc = "done",
                                  !.result = IF k.is_correct THEN "correct"
                                             ELSE "incorrect"])
               ELSE Put(Take(tasks, k),
                        [k EXCEPT !.pc = "done", !.result = "error",
                                  !.fault = TRUE])
        /\ served' = IF ok THEN [served EXCEPT ![k.user_id] = @ + 1]
                     ELSE served
        /\ scenario' = IF ok THEN ScenarioAfter(scenario) ELSE "off"
    /\ UNCHANGED <<users, progress, sample_pc, calls, clock, reply>>
    /\ UNCHANGED poolvars

\* ---------------------------------------------------------- read operations
\* DatabaseManager.execute_query: the rows, or the exception raised again
ExecuteQuery(ok, rows) ==
    IF ok THEN [raised |-> FALSE, value |-> rows]
    ELSE [raised |-> TRUE, value |-> "StoreFailure"]

\* DatabaseManager.execute_one: the row or None, or the exception raised again
ExecuteOne(ok, row) ==
    IF ok THEN [raised |-> FALSE, value |-> row]
    ELSE [raised |-> TRUE, value |-> "StoreFailure"]

\* return of a value
Returned(v) == [raised |-> FALSE, value |-> v]

\* SELECT s.*, u.username, u.full_name FROM statistics s JOIN users u ...
SelectStatistics(u) ==
    IF users[u].present /\ statistics[u].present
    THEN [present |-> TRUE,
          challenges_completed |-> statistics[u].challenges_completed,
          total_attempts |-> statistics[u].total_attempts,
          correct_attempts |-> statistics[u].correct_attempts,
          incorrect_attempts |-> statistics[u].incorrect_attempts,
          username |-> users[u].username, full_name |-> users[u].full_name]
    ELSE NoRow

\* the numbers of S as a sequence, the largest first
RECURSIVE Descending(_)
Descending(S) ==
    IF S = {} THEN << >>
    ELSE LET top == CHOOSE x \in S : \A y \in S : y <= x
         IN <<top>> \o Descending(S \ {top})

\* the numbers of S as a sequence, the smallest first
RECURSIVE Ascending(_)
Ascending(S) ==
    IF S = {} THEN << >>
    ELSE LET low == CHOOSE x \in S : \A y \in S : x <= y
         IN <<low>> \o Ascending(S \ {low})

\* a faulty query: ORDER BY challenge_id DESC
SelectCompletedLatestFirst(P, u) ==
    Descending(CompletedChallenges(P, u))

\* SELECT DISTINCT challenge_id FROM progress WHERE user_id = $1
\*   AND is_correct = TRUE ORDER BY challenge_id, and the list the method
\* makes of the rows
SelectCompleted(P, u) ==
    Ascending(CompletedChallenges(P, u))

\* Database.get_user_progress: two queries; any exception gives the empty
\* answer
GetUserProgress(u, ok1, ok2) ==
    LET stats == ExecuteOne(ok1, SelectStatistics(u))
        completed == ExecuteQuery(ok2, SelectCompleted(progress, u))
    IN IF stats.raised \/ completed.raised
       THEN Returned([stats |-> NoRow, completed_challenges |-> << >>])
       ELSE Returned([stats |-> stats.value,
                      completed_challenges |-> completed.value])

\* the message process_flag sends once its check_flag call has returned:
\* after a match of its own it tells 'correct' and 'already_completed' apart
\* and reports every other result as an incorrect flag; after no match it
\* does not look at the result.  After 'correct' for challenge 5 it asks
\* get_user_progress (result) and sends the final message when the list
\* of completed challenges has six entries
ProcessFlagReply(k, result) ==
    LET matched == StrUpper(StrStrip(k.raw)) \in
                       {StrUpper(f) : f \in Range(CHALLENGES[k.challenge_id].flag)}
    IN [op |-> "process_flag", result |-> k.result,
        text |-> IF matched /\ k.result = "correct"
                 THEN IF k.challenge_id = 5
                         /\ Len(result.completed_challenges) = 6
                      THEN "FLAG CORRECTA. FUGITIVO CAPTURADO"
                      ELSE "FLAG CORRECTA"
                 ELSE IF matched /\ k.result = "already_completed"
                 THEN "Ya has completado este desafio"
                 ELSE "FLAG INCORRECTA. Intenta de nuevo."]

\* process_flag reads the user's progress only after a correct answer to
\* challenge 5; the second query is not made when the first has failed
ReadsProgress(k) ==
    /\ k.via = "bot" /\ k.result = "correct" /\ k.challenge_id = 5
    /\ StrUpper(StrStrip(k.raw)) \in
           {StrUpper(f) : f \in Range(CHALLENGES[k.challenge_id].flag)}

\* a faulty process_flag: the pending challenge is not popped
PopSubmittingForgotten(data, u) == data

\* context.user_data.pop('submitting_challenge', None) of user u
PopSubmitting(data, u) == [data EXCEPT ![u] = NoChallenge]

\* the caller takes the result; process_flag sends its message, pops the
\* pending challenge and ends the conversation
Return(k) ==
    /\ k.pc = "done"
    /\ tasks' = Take(tasks, k)
    /\ \E ok1, ok2 \in BOOLEAN :
           /\ ReadsProgress(k) \/ (ok1 /\ ok2)
           /\ ok1 \/ ok2
           /\ reply' = IF k.via = "bot"
                       THEN ProcessFlagReply(k, GetUserProgress(k.user_id, ok1, ok2).value)
                       ELSE reply
    /\ submitting' = IF k.via = "bot" THEN PopSubmitting(submitting, k.user_id)
                     ELSE submitting
    /\ conversation' = IF k.via = "bot"
                       THEN [conversation EXCEPT ![k.user_id] = End]
                       ELSE conversation
    /\ UNCHANGED <<users, statistics, progress, sample_pc, calls, served, scenario>>
    /\ UNCHANGED clock
    /\ UNCHANGED <<pool, clients, schema, user_data, sent, reading, environ>>

\* the user has the reply
Deliver ==
    /\ reply # NoReply
    /\ reply' = NoReply
    /\ UNCHANGED <<users, statistics, progress, tasks, sample_pc, calls, served,
                   scenario, clock>>
    /\ UNCHANGED poolvars

\* time passes
Tick ==
    /\ NoneDone
    /\ clock < MaxClock
    /\ clock' = clock + 1
    /\ UNCHANGED <<users, statistics, progress, tasks, sample_pc, calls, served,
                   scenario, reply>>
    /\ UNCHANGED poolvars

\* -------------------------------------------------- asking the schedule
\* view_challenges or start_submit_from_command asks for one challenge
IsChallengeAvailableCall(c, now) ==
    /\ NoneDone
    /\ reply' = [op |-> "is_challenge_available", challenge_id |-> c,
                 now |-> now, value |-> IsChallengeAvailable(c, now)]
    /\ UNCHANGED ledger
    /\ UNCHANGED poolvars

\* ------------------------------------------------------------ /register
\* the handler register: Database.register_user, then one of two messages
Register(u, fn) ==
    /\ NoneDone
    /\ \E failure \in Failures(RegisterQueries(u, Username(u), fn)) :
        LET r == RegisterUserCall(u, Username(u), fn, failure)
        IN /\ users' = r.store.users
           /\ statistics' = r.store.statistics
           /\ scenario' = IF scenario = "s0" /\ u = 42 /\ r.ok THEN "s1" ELSE "off"
           /\ reply' = [op |-> "register", user_id |-> u, full_name |-> fn,
                        success |-> r.ok,
                        text |-> IF r.ok THEN "Registro exitoso"
                                 ELSE "Ya estabas registrado",
                        failure |-> failure,
                        before |-> [users |-> users, statistics |-> statistics,
                                    progress |-> progress]]
    /\ UNCHANGED <<progress, tasks, sample_pc, calls, served, clock>>
    /\ UNCHANGED poolvars

\* ---------------------------------------------------------- admin reads
\* SELECT challenge_id, COUNT(DISTINCT user_id) FROM progress
\*   WHERE is_correct = TRUE GROUP BY challenge_id
ChallengeStats ==
    {[challenge_id |-> c,
      completions |-> Cardinality({r.user_id : r \in {x \in progress :
                                       x.is_correct /\ x.challenge_id = c}})] :
        c \in {r.challenge_id : r \in {x \in progress : x.is_correct}}}

\* Database.get_admin_stats: three queries; any exception gives zero counts
\* and no challenge statistics (every submission of a behaviour is less than
\* 24 hours old)
GetAdminStats(ok1, ok2, ok3) ==
    LET total_users == ExecuteOne(ok1,
            Cardinality({u \in UserIds : users[u].present /\ users[u].is_active}))
        active_users == ExecuteOne(ok2,
            Cardinality({r.user_id : r \in progress}))
        challenge_stats == ExecuteQuery(ok3, ChallengeStats)
    IN IF total_users.raised \/ active_users.raised \/ challenge_stats.raised
       THEN Returned([total_users |-> 0, active_users |-> 0,
                      challenge_stats |-> {}])
       ELSE Returned([total_users |-> total_users.value,
                      active_users |-> active_users.value,
                      challenge_stats |-> challenge_stats.value])

\* the batch of Database.init_db: CREATE TABLE / INDEX IF NOT EXISTS
InitQueries ==
    << [op |-> "create_table", args |-> <<"users">>],
       [op |-> "create_index", args |-> <<"idx_users_username">>],
       [op |-> "create_index", args |-> <<"idx_users_active">>],
       [op |-> "create_table", args |-> <<"progress">>],
       [op |-> "create_index", args |-> <<"idx_progress_user">>],
       [op |-> "create_index", args |-> <<"idx_progress_challenge">>],
       [op |-> "create_index", args |-> <<"idx_progress_correct">>],
       [op |-> "create_index", args |-> <<"idx_progress_date">>],
       [op |-> "create_table", args |-> <<"statistics">>],
       [op |-> "create_table", args |-> <<"activity_logs">>],
       [op |-> "create_index", args |-> <<"idx_activity_user">>],
       [op |-> "create_index", args |-> <<"idx_activity_timestamp">>],
       [op |-> "create_index", args |-> <<"idx_activity_action">>] >>

\* the execute_transaction of Database.init_db on the store
InitDbRun(failure) ==
    ExecuteTransaction([users |-> users, statistics |-> statistics,
                        progress |-> progress, schema |-> schema],
                       InitQueries, failure, clock)

\* Database.init_db: the bool of its execute_transaction
InitDb(failure) ==
    Returned(InitDbRun(failure).ok)

\* ------------------------------------------------------------- leaderboard
Min(S) == CHOOSE x \in S : \A y \in S : x <= y

\* FROM users u JOIN statistics s ... WHERE s.challenges_completed > 0
Entrants ==
    {u \in UserIds : /\ users[u].present /\ statistics[u].present
                     /\ statistics[u].challenges_completed > 0}

\* GROUP BY u.full_name, s.challenges_completed, s.total_attempts
GroupOf(u) ==
    [full_name |-> users[u].full_name,
     challenges_completed |-> statistics[u].challenges_completed,
     total_attempts |-> statistics[u].total_attempts]

\* MIN(p.submission_date) over the correct progress rows joined to the group;
\* NULL when there is none
FirstCompletion(g) ==
    LET dates == {r.submission_date :
                     r \in {x \in progress : /\ x.is_correct
                                              /\ x.user_id \in Entrants
                                              /\ GroupOf(x.user_id) = g}}
    IN IF dates = {} THEN [null |-> TRUE] ELSE [null |-> FALSE, at |-> Min(dates)]

LeaderboardRows ==
    {[full_name |-> g.full_name,
      challenges_completed |-> g.challenges_completed,
      total_attempts |-> g.total_attempts,
      first_completion |-> FirstCompletion(g)] : g \in {GroupOf(u) : u \in Entrants}}

\* a faulty ORDER BY: first_completion DESC
OrderedBeforeLatestFirst(a, b) ==
    \/ a.challenges_completed > b.challenges_completed
    \/ /\ a.challenges_completed = b.challenges_completed
       /\ \/ a.first_completion.null
          \/ /\ ~b.first_completion.null
             /\ a.first_completion.at >= b.first_completion.at

\* ORDER BY s.challenges_completed DESC, first_completion ASC (NULL last):
\* row a may stand before row b
OrderedBefore(a, b) ==
    \/ a.challenges_completed > b.challenges_completed
    \/ /\ a.challenges_completed = b.challenges_completed
       /\ \/ b.first_completion.null
          \/ /\ ~a.first_completion.null
             /\ a.first_completion.at <= b.first_completion.at

\* LIMIT 10
LeaderboardLimit == 10

\* the first n elements of a sequence
Take10(seq, n) == SubSeq(seq, 1, IF Len(seq) < n THEN Len(seq) ELSE n)

\* the sequences the query may give: rows equal in both sort keys come in any
\* order
LeaderboardResults ==
    LET n == Cardinality(LeaderboardRows)
    IN {Take10(f, LeaderboardLimit) :
           f \in {g \in [1..n -> LeaderboardRows] :
                     /\ \A i, j \in 1..n : i # j => g[i] # g[j]
                     /\ \A i, j \in 1..n : i < j => OrderedBefore(g[i], g[j])}}

\* a faulty get_leaderboard: no try/except around the query
GetLeaderboardUncaught(ok, rows) ==
    ExecuteQuery(ok, rows)

\* Database.get_leaderboard: the rows of its query, or [] on an exception
GetLeaderboard(ok, rows) ==
    LET r == ExecuteQuery(ok, rows)
    IN IF r.raised THEN Returned(<< >>) ELSE r

\* key=lambda x: (-x['challenges_completed'], x['total_attempts']): a sorts
\* strictly before b
SortsBefore(a, b) ==
    \/ a.challenges_completed > b.challenges_completed
    \/ /\ a.challenges_completed = b.challenges_completed
       /\ a.total_attempts < b.total_attempts

\* list.sort is stable: x goes before the first element it sorts strictly
\* before
RECURSIVE SortedInsert(_, _)
SortedInsert(sorted, x) ==
    IF sorted = << >> THEN <<x>>
    ELSE IF SortsBefore(x, Head(sorted)) THEN <<x>> \o sorted
    ELSE <<Head(sorted)>> \o SortedInsert(Tail(sorted), x)

RECURSIVE StableSort(_)
StableSort(seq) ==
    IF seq = << >> THEN << >>
    ELSE SortedInsert(StableSort(SubSeq(seq, 1, Len(seq) - 1)), seq[Len(seq)])

GetUserProgressCall(u) ==
    /\ NoneDone
    /\ \E ok1, ok2 \in BOOLEAN :
        LET r == GetUserProgress(u, ok1, ok2)
        IN reply' = [op |-> "get_user_progress", user_id |-> u,
                     raised |-> r.raised,
                     failed |-> ~(ok1 /\ ok2), value |-> r.value]
    /\ UNCHANGED ledger
    /\ UNCHANGED poolvars

\* Database.get_user_progress among other coroutines, up to and including
\* its first query (execute_one); an exception gives the empty answer
GetUserProgressStats(u) ==
    /\ NoneDone
    /\ reading = NoRead
    /\ \E ok \in BOOLEAN :
        LET stats == ExecuteOne(ok, SelectStatistics(u))
        IN IF stats.raised
           THEN /\ reply' = [op |-> "get_user_progress", user_id |-> u,
                             raised |-> FALSE, failed |-> TRUE,
                             value |-> [stats |-> NoRow,
                                        completed_challenges |-> << >>]]
                /\ UNCHANGED reading
           ELSE /\ reading' = [pc |-> "completed", user_id |-> u,
                               stats |-> stats.value]
                /\ UNCHANGED reply
    /\ UNCHANGED <<users, statistics, progress, tasks, sample_pc, calls, served,
                   scenario, clock>>
    /\ UNCHANGED <<pool, clients, schema, user_data, sent, submitting,
                   conversation, environ>>

\* its second query (execute_query) and its return
GetUserProgressCompleted ==
    /\ NoneDone
    /\ reading # NoRead
    /\ \E ok \in BOOLEAN :
        LET completed == ExecuteQuery(ok, SelectCompleted(progress, reading.user_id))
        IN reply' = [op |-> "get_user_progress", user_id |-> reading.user_id,
                     raised |-> FALSE, failed |-> ~ok,
                     value |-> IF completed.raised
                               THEN [stats |-> NoRow,
                                     completed_challenges |-> << >>]
                               ELSE [stats |-> reading.stats,
                                     completed_challenges |-> completed.value]]
    /\ reading' = NoRead
    /\ UNCHANGED <<users, statistics, progress, tasks, sample_pc, calls, served,
                   scenario, clock>>
    /\ UNCHANGED <<pool, clients, schema, user_data, sent, submitting,
                   conversation, environ>>

GetAdminStatsCall ==
    /\ NoneDone
    /\ \E ok1, ok2, ok3 \in BOOLEAN :
        LET r == GetAdminStats(ok1, ok2, ok3)
        IN reply' = [op |-> "get_admin_stats", raised |-> r.raised,
                     failed |-> ~(ok1 /\ ok2 /\ ok3), value |-> r.value]
    /\ UNCHANGED ledger
    /\ UNCHANGED poolvars

\* the handler leaderboard: Database.get_leaderboard, ranking.sort(...),
\* ranking[:10] shown
Leaderboard ==
    /\ NoneDone
    /\ \E ok \in BOOLEAN, rows \in LeaderboardResults :
        LET r == GetLeaderboard(ok, rows)
        IN reply' = [op |-> "leaderboard", raised |-> r.raised, failed |-> ~ok,
                     value |-> r.value,
                     shown |-> IF r.raised THEN << >>
                               ELSE Take10(StableSort(r.value), LeaderboardLimit)]
    /\ UNCHANGED ledger
    /\ UNCHANGED poolvars

InitDbCall ==
    /\ NoneDone
    /\ \E failure \in Failures(InitQueries) :
        LET r == InitDb(failure)
            after == InitDbRun(failure).store
        IN /\ reply' = [op |-> "init_db", raised |-> r.raised,
                        failed |-> failure # 0, value |-> r.value,
                        before |-> [users |-> users, statistics |-> statistics,
                                    progress |-> progress, schema |-> schema]]
           /\ users' = after.users
           /\ statistics' = after.statistics
           /\ progress' = after.progress
           /\ schema' = after.schema
    /\ UNCHANGED <<tasks, sample_pc, calls, served, scenario, clock>>
    /\ UNCHANGED <<pool, clients, user_data, sent, handlervars>>

\* --------------------------------------------------------------- /broadcast
\* os.getenv(name, default)
Getenv(env, default) == IF env.set THEN env.value ELSE default

\* str.split(sep) for a separator of one character
RECURSIVE Split(_, _)
Split(s, sep) ==
    LET at == {i \in 1 .. Len(s) : s[i] = sep}
        first == CHOOSE i \in at : \A j \in at : i <= j
    IN IF at = {} THEN <<s>>
       ELSE <<SubSeq(s, 1, first - 1)>> \o Split(SubSeq(s, first + 1, Len(s)), sep)

DecimalDigits == <<"0", "1", "2", "3", "4", "5", "6", "7", "8", "9">>

\* str(n) of a non-negative integer
RECURSIVE Str(_)
Str(n) ==
    IF n < 10 THEN <<DecimalDigits[n + 1]>>
    ELSE Str(n \div 10) \o <<DecimalDigits[(n % 10) + 1]>>

\* a faulty ADMIN_IDS: a default that names a user
ADMIN_IDSWithDefault ==
    Split(Getenv(environ, <<"4", "2">>), ",")

\* ADMIN_IDS = os.getenv('ADMIN_IDS', '').split(',')
ADMIN_IDS ==
    Split(Getenv(environ, << >>), ",")

\* the users that pass the handlers' test str(user_id) in ADMIN_IDS
AdminIds == {u \in UserIds : Str(u) \in Range(ADMIN_IDS)}

\* context.args of /broadcast: none, or the words of a message
BroadcastArgs == {<< >>, <<"aviso">>}

\* the attributes of class Database that are its operations: the methods
\* defined inside the class body
DatabaseMethods ==
    {"init_db", "register_user", "check_flag", "get_user_progress",
     "get_leaderboard", "get_admin_stats"}

\* SELECT user_id, username, full_name FROM users ORDER BY registration_date:
\* the orders the store may give the rows in
AllUsersResults ==
    LET present == {u \in UserIds : users[u].present}
        n == Cardinality(present)
    IN {seq \in [1 .. n -> present] :
           /\ \A i, j \in 1 .. n : i # j => seq[i] # seq[j]
           /\ \A i, j \in 1 .. n : i < j =>
                  users[seq[i]].registration_date <= users[seq[j]].registration_date}

\* the function get_all_users of module database_manager: the rows of its
\* query, or [] on an exception
GetAllUsers(ok, rows) ==
    LET result == ExecuteQuery(ok, rows)
    IN IF result.raised THEN Returned(<< >>) ELSE Returned(result.value)

\* Database.<name>(...) as a handler evaluates it: AttributeError when the
\* class has no such attribute
DatabaseCall(name, result) ==
    IF name \in DatabaseMethods THEN result
    ELSE [raised |-> TRUE, value |-> "AttributeError"]

\* the handler broadcast_message
BroadcastMessage(sender, args) ==
    /\ NoneDone
    /\ \E ok \in BOOLEAN, rows \in AllUsersResults :
        LET all_users == DatabaseCall("get_all_users", GetAllUsers(ok, rows))
            formatted_message == "MENSAJE DEL ADMINISTRADOR"
            outcome ==
                IF sender \notin AdminIds THEN "No tienes permisos"
                ELSE IF args = << >> THEN "Uso: /broadcast Tu mensaje"
                ELSE IF all_users.raised THEN "Error preparando el mensaje circular"
                ELSE IF all_users.value = << >> THEN "No hay usuarios registrados"
                ELSE "VISTA PREVIA DEL MENSAJE"
        IN /\ user_data' = IF outcome = "VISTA PREVIA DEL MENSAJE"
                           THEN [broadcast_message |-> formatted_message,
                                 broadcast_users |-> all_users.value]
                           ELSE user_data
           /\ reply' = [op |-> "broadcast", sender |-> sender, args |-> args,
                        failed |-> ~ok, text |-> outcome]
    /\ UNCHANGED <<users, statistics, progress, tasks, sample_pc, calls, served,
                   scenario, clock>>
    /\ UNCHANGED <<pool, clients, schema, sent, handlervars>>

\* the handler confirm_broadcast, on one of the two buttons of the preview
ConfirmBroadcast(sender, data) ==
    /\ NoneDone
    /\ LET message_to_send == user_data.broadcast_message
           users_list == user_data.broadcast_users
       IN \E delivered \in [1 .. Len(users_list) -> BOOLEAN] :
           IF sender \notin AdminIds
           THEN /\ reply' = [op |-> "confirm_broadcast", data |-> data,
                             sender |-> sender,
                             text |-> "No tienes permisos"]
                /\ UNCHANGED <<user_data, sent, submitting>>
           ELSE IF data = "cancel_broadcast"
           THEN /\ reply' = [op |-> "confirm_broadcast", data |-> data,
                             sender |-> sender,
                             text |-> "Envio de mensaje cancelado"]
                /\ user_data' = NoData
                /\ submitting' = [submitting EXCEPT ![sender] = NoChallenge]
                /\ UNCHANGED sent
           ELSE IF message_to_send = "" \/ users_list = << >>
           THEN /\ reply' = [op |-> "confirm_broadcast", data |-> data,
                             sender |-> sender,
                             text |-> "Datos del mensaje no encontrados"]
                /\ UNCHANGED <<user_data, sent, submitting>>
           ELSE /\ sent' = sent \o [i \in 1 .. Len(users_list) |->
                                       [chat_id |-> users_list[i],
                                        ok |-> delivered[i]]]
                /\ reply' = [op |-> "confirm_broadcast", data |-> data,
                             sender |-> sender,
                             text |-> "REPORTE DE ENVIO COMPLETADO",
                             success_count |->
                                 Cardinality({i \in 1 .. Len(users_list) :
                                                 delivered[i]}),
                             failed_count |->
                                 Cardinality({i \in 1 .. Len(users_list) :
                                                 ~delivered[i]}),
                             total |-> Len(users_list)]
                /\ user_data' = NoData
                /\ submitting' = [submitting EXCEPT ![sender] = NoChallenge]
    /\ UNCHANGED <<users, statistics, progress, tasks, sample_pc, calls, served,
                   scenario, clock>>
    /\ UNCHANGED <<pool, clients, schema, reading, conversation, environ>>

\* the handler admin_stats: refused unless the sender is in ADMIN_IDS, else
\* the counts of Database.get_admin_stats
AdminStats(sender) ==
    /\ NoneDone
    /\ \E ok1, ok2, ok3 \in BOOLEAN :
        /\ sender \in AdminIds \/ (ok1 /\ ok2 /\ ok3)
        /\ reply' = IF sender \notin AdminIds
                    THEN [op |-> "admin_stats", sender |-> sender,
                          text |-> "No tienes permisos"]
                    ELSE [op |-> "admin_stats", sender |-> sender,
                          text |-> "ESTADISTICAS ADMINISTRATIVAS",
                          stats |-> GetAdminStats(ok1, ok2, ok3).value]
    /\ UNCHANGED ledger
    /\ UNCHANGED poolvars

\* ------------------------------------------- the flag-submission conversation
\* start_submit_with_id, the entry point of submit_handler on a button
\* submit_<c>: taken when the user is in no conversation (entry points are
\* not tried again while one is under way)
StartSubmitWithId(u, c) ==
    /\ NoneDone
    /\ conversation[u] = End
    /\ submitting' = [submitting EXCEPT ![u] = {c}]
    /\ conversation' = [conversation EXCEPT ![u] = WaitingFlag]
    /\ reply' = [op |-> "start_submit", user_id |-> u, challenge_id |-> c,
                 text |-> "Enviar Flag"]
    /\ UNCHANGED <<users, statistics, progress, tasks, sample_pc, calls, served,
                   scenario, clock>>
    /\ UNCHANGED <<pool, clients, schema, user_data, sent, reading, environ>>

\* process_flag, the handler of a text message in state WAITING_FLAG: with
\* no pending challenge it answers and ends the conversation, else it goes
\* into its check_flag call for the pending challenge
ProcessFlagMessage(u, raw) ==
    /\ conversation[u] = WaitingFlag
    /\ \/ /\ NoneDone
          /\ submitting[u] = NoChallenge
          /\ reply' = [op |-> "process_flag", result |-> "none",
                       text |-> "Sesion expirada. Usa /submit de nuevo."]
          /\ conversation' = [conversation EXCEPT ![u] = End]
          /\ UNCHANGED <<users, statistics, progress, tasks, sample_pc, calls,
                         served, scenario, clock>>
          /\ UNCHANGED <<pool, clients, schema, user_data, sent, reading,
                         submitting, environ>>
       \/ \E c \in submitting[u] : ProcessFlag(u, c, raw)

\* cancel, the fallback of submit_handler on /cancel: user_data.clear() and
\* the end of the conversation
Cancel(u) ==
    /\ NoneDone
    /\ conversation[u] = WaitingFlag
    /\ submitting' = [submitting EXCEPT ![u] = NoChallenge]
    /\ user_data' = IF u \in AdminIds THEN NoData ELSE user_data
    /\ conversation' = [conversation EXCEPT ![u] = End]
    /\ reply' = [op |-> "cancel", text |-> "Operacion cancelada"]
    /\ UNCHANGED <<users, statistics, progress, tasks, sample_pc, calls, served,
                   scenario, clock>>
    /\ UNCHANGED <<pool, clients, schema, sent, reading, environ>>

\* ------------------------------------------------------- create_sample_data
SampleMet == [k \in Running |-> Mark(k, SampleUser, FALSE)]

\* its register_user call; the returned bool is not looked at
SampleRegister ==
    /\ NoneDone
    /\ sample_pc = "idle"
    /\ sample_pc' = "registered"
    /\ \E failure \in Failures(RegisterQueries(SampleUser, "test_user",
                                                "Usuario de Prueba")) :
        LET r == RegisterUserCall(SampleUser, "test_user", "Usuario de Prueba",
                                  failure)
        IN /\ users' = r.store.users
           /\ statistics' = r.store.statistics
    /\ tasks' = MapBag(tasks, SampleMet)
    /\ scenario' = "off"
    /\ UNCHANGED <<progress, calls, served, clock, reply>>
    /\ UNCHANGED poolvars

\* its INSERT of a correct progress row, with no statistics update
SampleInsert ==
    /\ NoneDone
    /\ sample_pc = "registered"
    /\ sample_pc' = "done"
    /\ \E ok \in BOOLEAN :
        progress' = IF ok /\ ForeignKeyOk(users, SampleUser)
                    THEN InsertProgress(progress, SampleUser, 0, SampleFlag, TRUE,
                                        clock)
                    ELSE progress
    /\ tasks' = MapBag(tasks, SampleMet)
    /\ scenario' = "off"
    /\ UNCHANGED <<users, statistics, calls, served, clock, reply>>
    /\ UNCHANGED poolvars

\* ------------------------------------------------------------------ the pool
\* db_manager's max_connections when DB_MAX_CONNECTIONS is not set
MaxConnections == 3

\* the operations of DatabaseManager that take a connection
StoreOperations ==
    {"get_connection", "execute_query", "execute_one", "execute_command",
     "execute_transaction"}

\* the connections checked out of db_manager.pool
Held == IF pool.open THEN pool.held ELSE {}

\* a faulty get_connection: the release after the yield, with no finally
ReleasedUnlessRaised(held, t, raised) ==
    IF raised THEN held ELSE held \ {t}

\* a faulty get_connection: no release at all
ReleasedNever(held, t, raised) ==
    held

\* a faulty get_connection: the release in an except branch instead of the
\* finally
ReleasedWhenRaised(held, t, raised) ==
    IF raised THEN held \ {t} ELSE held

\* get_connection's finally: pool.release(connection), whether or not the
\* body raised
Released(held, t, raised) ==
    held \ {t}

\* what an operation gives its caller: execute_query, execute_one and
\* execute_command log and re-raise, execute_transaction returns a bool, and
\* the body under a bare get_connection is test_performance's fetchval
Outcome(op, raised, error) ==
    IF op = "execute_transaction"
    THEN [raised |-> FALSE, value |-> ~raised]
    ELSE IF raised
    THEN [raised |-> TRUE, error |-> error]
    ELSE [raised |-> FALSE,
          value |-> CASE op = "get_connection" -> 1
                      [] op = "execute_query" -> "rows"
                      [] op = "execute_one" -> "row"
                      [] op = "execute_command" -> "status"]

\* a coroutine's operation has ended
Ended(op, raised, error) ==
    [pc |-> "done", op |-> op] @@ Outcome(op, raised, error)

\* DatabaseManager.initialize: create_pool, which may raise
Initialize ==
    /\ ~pool.open
    /\ \A t \in Clients : clients[t].pc = "idle"
    /\ \E ok \in BOOLEAN :
           pool' = IF ok
                   THEN [open |-> TRUE, max_size |-> MaxConnections, held |-> {}]
                   ELSE pool
    /\ UNCHANGED clients
    /\ UNCHANGED ledger
    /\ UNCHANGED reply

\* DatabaseManager.close, at the end of main: pool.close() and pool = None
Close ==
    /\ pool.open
    /\ \A t \in Clients : clients[t].pc = "idle"
    /\ pool' = NoPool
    /\ UNCHANGED clients
    /\ UNCHANGED ledger
    /\ UNCHANGED reply

\* get_connection up to its await: RuntimeError without a pool, else the
\* coroutine is in pool.acquire()
Request(t, op) ==
    /\ clients[t].pc = "idle"
    /\ clients' = [clients EXCEPT ![t] =
                       IF pool.open THEN [pc |-> "acquire", op |-> op]
                       ELSE Ended(op, TRUE, "RuntimeError")]
    /\ UNCHANGED pool
    /\ UNCHANGED ledger
    /\ UNCHANGED reply

\* pool.acquire() returns once fewer than max_size connections are out; it
\* raises when a connection cannot be made
Acquire(t) ==
    /\ clients[t].pc = "acquire"
    /\ pool.open
    /\ Cardinality(pool.held) < pool.max_size
    /\ \E ok \in BOOLEAN :
           /\ pool' = IF ok THEN [pool EXCEPT !.held = @ \cup {t}] ELSE pool
           /\ clients' = [clients EXCEPT ![t] =
                              IF ok THEN [clients[t] EXCEPT !.pc = "hold"]
                              ELSE Ended(clients[t].op, TRUE, "ConnectError")]
    /\ UNCHANGED ledger
    /\ UNCHANGED reply

\* the body under get_connection runs its statement, which may raise, and
\* the context manager exits
Leave(t) ==
    /\ clients[t].pc = "hold"
    /\ \E ok \in BOOLEAN :
           /\ pool' = [pool EXCEPT !.held = Released(@, t, ~ok)]
           /\ clients' = [clients EXCEPT ![t] =
                              Ended(clients[t].op, ~ok, "PostgresError")]
    /\ UNCHANGED ledger
    /\ UNCHANGED reply

\* the caller has the outcome
Finish(t) ==
    /\ clients[t].pc = "done"
    /\ clients' = [clients EXCEPT ![t] = Idle]
    /\ UNCHANGED pool
    /\ UNCHANGED ledger
    /\ UNCHANGED reply

\* ------------------------------------------- ledger operations on the pool
\* the coroutines that run one operation of the ledger each
Callers == 1 .. NumCallers

LedgerOperations ==
    {"register_user", "check_flag", "get_user_progress", "get_leaderboard"}

\* the db_manager operations a ledger operation awaits, in order
Statements(call) ==
    CASE call = "register_user" -> <<"execute_transaction">>
      [] call = "check_flag" ->
             <<"execute_one", "execute_command", "execute_command">>
      [] call = "get_user_progress" -> <<"execute_one", "execute_query">>
      [] call = "get_leaderboard" -> <<"execute_query">>

\* the ledger operation has returned
Finished(c, result) ==
    [pc |-> "done", call |-> c.call, result |-> result]

\* the ledger operation awaits its next db_manager operation
NextStatement(c) ==
    [c EXCEPT !.pc = "acquire", !.step = @ + 1,
              !.op = Statements(c.call)[c.step + 1]]

\* a faulty check_flag: a statement that raised is run again
AfterStatementRetrying(c, o, found) ==
    IF c.call = "check_flag" /\ o.raised
    THEN [c EXCEPT !.pc = "acquire"]
    ELSE CASE c.call = "register_user" ->
                  Finished(c, IF o.value THEN "true" ELSE "false")
           [] c.call = "check_flag" ->
                  IF c.step = 1
                  THEN IF found THEN Finished(c, "already_completed")
                       ELSE NextStatement(c)
                  ELSE IF c.step = 2 THEN NextStatement(c)
                  ELSE Finished(c, IF c.is_correct THEN "correct"
                                   ELSE "incorrect")
           [] c.call = "get_user_progress" ->
                  IF o.raised THEN Finished(c, "no stats")
                  ELSE IF c.step = 1 THEN NextStatement(c)
                  ELSE Finished(c, "progress")
           [] c.call = "get_leaderboard" ->
                  IF o.raised THEN Finished(c, "no rows")
                  ELSE Finished(c, "rows")

\* what the ledger operation does with outcome o of its db_manager
\* operation: register_user returns the bool of execute_transaction; the
\* others catch an exception and return their fallback, and else go on to
\* their next statement or return (found: the SELECT of check_flag gave a
\* row)
AfterStatement(c, o, found) ==
    CASE c.call = "register_user" ->
             Finished(c, IF o.value THEN "true" ELSE "false")
      [] c.call = "check_flag" ->
             IF o.raised THEN Finished(c, "error")
             ELSE IF c.step = 1
             THEN IF found THEN Finished(c, "already_completed")
                  ELSE NextStatement(c)
             ELSE IF c.step = 2 THEN NextStatement(c)
             ELSE Finished(c, IF c.is_correct THEN "correct" ELSE "incorrect")
      [] c.call = "get_user_progress" ->
             IF o.raised THEN Finished(c, "no stats")
             ELSE IF c.step = 1 THEN NextStatement(c)
             ELSE Finished(c, "progress")
      [] c.call = "get_leaderboard" ->
             IF o.raised THEN Finished(c, "no rows")
             ELSE Finished(c, "rows")

\* a coroutine enters a ledger operation, which awaits its first db_manager
\* operation; is_correct tells whether the text of a check_flag call is an
\* accepted answer
Call(t, call, is_correct) ==
    /\ clients[t].pc = "idle"
    /\ pool.open
    /\ clients' = [clients EXCEPT ![t] =
                       [pc |-> "acquire", call |-> call, step |-> 1,
                        op |-> Statements(call)[1],
                        is_correct |-> call = "check_flag" /\ is_correct]]
    /\ UNCHANGED pool
    /\ UNCHANGED ledger
    /\ UNCHANGED reply

\* pool.acquire() of the db_manager operation returns, or raises
StatementAcquire(t) ==
    /\ clients[t].pc = "acquire"
    /\ pool.open
    /\ Cardinality(pool.held) < pool.max_size
    /\ \E ok \in BOOLEAN :
           /\ pool' = IF ok THEN [pool EXCEPT !.held = @ \cup {t}] ELSE pool
           /\ clients' = [clients EXCEPT ![t] =
                  IF ok THEN [clients[t] EXCEPT !.pc = "hold"]
                  ELSE AfterStatement(clients[t],
                                      Outcome(clients[t].op, TRUE, "ConnectError"),
                                      FALSE)]
    /\ UNCHANGED ledger
    /\ UNCHANGED reply

\* the statement of the db_manager operation completes or fails, the
\* connection goes back to the pool, and the ledger operation goes on
StatementLeave(t) ==
    /\ clients[t].pc = "hold"
    /\ \E ok, found \in BOOLEAN :
           /\ pool' = [pool EXCEPT !.held = Released(@, t, ~ok)]
           /\ clients' = [clients EXCEPT ![t] =
                  AfterStatement(clients[t],
                                 Outcome(clients[t].op, ~ok, "PostgresError"),
                                 found)]
    /\ UNCHANGED ledger
    /\ UNCHANGED reply

\* no outcome is waiting for its caller
NoneEnded == \A t \in Clients : clients[t].pc # "done"

\* ----------------------------------------------------------- specifications
\* the ledger under concurrent direct check_flag calls
Next ==
    \/ \E u \in UserIds, fn \in LedgerNames : RegisterUser(u, fn)
    \/ \E u \in UserIds :
           \E c \in LedgerChallenges(u) :
               \E flag \in LedgerTexts(c) : CheckFlagDirect(u, c, flag)
    \/ \E k \in Running : CheckFlagInsert(k)
    \/ \E k \in Running : CheckFlagUpdate(k)
    \/ \E k \in Running : Return(k)
    \/ SampleRegister
    \/ SampleInsert

Spec == Init /\ [][Next]_vars

\* the matching of submitted texts: one user, one call at a time, through
\* both entries
NextMatch ==
    \/ \E fn \in FullNames : RegisterUser(42, fn)
    \/ /\ tasks = EmptyBag
       /\ \E c \in SubmittedChallenges :
              \E flag \in InputTexts(c) : CheckFlagDirect(42, c, flag)
    \/ /\ tasks = EmptyBag
       /\ \E c \in SubmittedChallenges :
              /\ calls < MaxCalls \/ SelectCorrect(progress, 42, c) # {}
              /\ \E raw \in InputTexts(c) : ProcessFlag(42, c, raw)
    \/ \E k \in Running : CheckFlagInsert(k)
    \/ \E k \in Running : CheckFlagUpdate(k)
    \/ \E k \in Running : Return(k)
    \/ Deliver

SpecMatch == Init /\ [][NextMatch]_vars

\* every operation of the ledger and the handlers on it, one at a time, with
\* time passing; user 42 sends the messages
NextOps ==
    \/ \E u \in UserIds, fn \in FullNames : Register(u, fn)
    \/ /\ tasks = EmptyBag
       /\ \E c \in SubmittedChallenges :
              /\ calls < MaxCalls \/ SelectCorrect(progress, 42, c) # {}
              /\ \E raw \in LedgerTexts(c) : ProcessFlag(42, c, raw)
    \/ \E k \in Running : CheckFlagInsert(k)
    \/ \E k \in Running : CheckFlagUpdate(k)
    \/ \E k \in Running : Return(k)
    \/ Deliver
    \/ tasks = EmptyBag /\ Tick
    \/ tasks = EmptyBag /\ \E u \in UserIds : GetUserProgressCall(u)
    \/ tasks = EmptyBag /\ GetAdminStatsCall
    \/ tasks = EmptyBag /\ InitDbCall
    \/ tasks = EmptyBag /\ Leaderboard

SpecOps == Init /\ [][NextOps]_vars

\* the ranking: both users are registered, send their messages one at a
\* time, and time passes
BoardTexts(c) ==
    IF c = 0 THEN {CHALLENGES[0].flag[1], WrongFlag} ELSE {CHALLENGES[c].flag[1]}

InitBoard ==
    /\ \E fn \in FullNames :
           users = [u \in UserIds |->
                       UserRow(Username(u),
                               IF u = 42 THEN fn ELSE "Usuario de Prueba", 0)]
    /\ statistics = [u \in UserIds |-> ZeroStatistics]
    /\ progress = {}
    /\ tasks = EmptyBag
    /\ sample_pc = "idle"
    /\ calls = 0
    /\ served = [u \in UserIds |-> 0]
    /\ scenario = "off"
    /\ clock = 0
    /\ reply = NoReply
    /\ pool = NoPool
    /\ clients = [t \in Clients |-> Idle]
    /\ schema = Tables \cup Indexes
    /\ user_data = NoData
    /\ sent = << >>
    /\ reading = NoRead
    /\ submitting = [u \in UserIds |-> NoChallenge]
    /\ conversation = [u \in UserIds |-> End]
    /\ environ = SetTo(<<"4", "2">>)

NextBoard ==
    \/ /\ tasks = EmptyBag
       /\ \E u \in UserIds, c \in SubmittedChallenges :
              \E raw \in BoardTexts(c) : ProcessFlag(u, c, raw)
    \/ \E k \in Running : CheckFlagInsert(k)
    \/ \E k \in Running : CheckFlagUpdate(k)
    \/ \E k \in Running : Return(k)
    \/ Deliver
    \/ tasks = EmptyBag /\ Tick
    \/ tasks = EmptyBag /\ Leaderboard

SpecBoard == InitBoard /\ [][NextBoard]_vars

\* ------------------------------------------------------------------ claims
Done == {k \in Running : k.pc = "done"}

RowsOf(u) == {r \in progress : r.user_id = u}

\* C1: in every state of the store, each user's statistics.challenges_completed
\* is the number of distinct challenges the user has a correct progress row for
ChallengesCompletedMatchesProgress ==
    \A u \in UserIds :
        statistics[u].present =>
            statistics[u].challenges_completed =
                Cardinality({c \in DOMAIN CHALLENGES :
                                \E r \in RowsOf(u) : r.challenge_id = c /\ r.is_correct})

\* C2: when two check_flag calls with the same correct text for the same
\* (user, challenge) ran concurrently and both are over, there is exactly one
\* progress row for that (user, challenge, text) and challenges_completed is
\* exactly 1 higher than before the two calls
TwinCorrectCallsCountOnce ==
    \A k \in Done :
        ( /\ k.company = "twin" /\ k.twin_correct /\ k.result = "correct"
          /\ ~ \E j \in Running :
                 /\ InFlight(j) /\ j.user_id = k.user_id
                 /\ j.challenge_id = k.challenge_id /\ j.flag = k.flag )
        => /\ Cardinality({r \in RowsOf(k.user_id) :
                              /\ r.challenge_id = k.challenge_id
                              /\ r.flag_submitted = k.flag}) = 1
           /\ statistics[k.user_id].challenges_completed = k.base + 1

\* C3: a check_flag call that returns 'error' leaves no progress row behind,
\* and no state shows the row of a call without its statistics update
AttemptAndStatisticsAreAtomic ==
    \A k \in Running :
        /\ (k.pc = "done" /\ k.result = "error") => ~k.inserted
        /\ ~(k.pc = "update" /\ k.inserted)

\* the text equals, as a whole string and letter case apart, one of the
\* accepted answers of challenge c
Accepted(c, text) ==
    \E i \in 1..Len(CHALLENGES[c].flag) :
        LET f == CHALLENGES[c].flag[i]
        IN /\ Len(text) = Len(f)
           /\ \A j \in 1..Len(f) : UpperChar(text[j]) = UpperChar(f[j])

\* C4: a check_flag call that finds a correct progress row for its (user,
\* challenge) returns 'already_completed', whatever the text, and the step
\* that ends it leaves every progress row and every statistics column as
\* they were
AlreadyCompletedWritesNothing ==
    [][\A k \in {j \in BagToSet(tasks') : j.pc = "done"} :
          (k.completed /\ ~k.fault) =>
              /\ k.result = "already_completed"
              /\ ~k.inserted
              /\ progress' = progress
              /\ statistics' = statistics]_vars

\* a call with another accepted answer than the one on record has returned
\* 'already_completed'
AlreadyCompletedWitness ==
    \E k \in Done :
        /\ k.completed /\ k.result = "already_completed"
        /\ Accepted(k.challenge_id, k.flag)
        /\ ~ \E r \in RowsOf(k.user_id) :
               r.challenge_id = k.challenge_id /\ r.flag_submitted = k.flag

\* C5: a check_flag call with an accepted answer, for a registered user and a
\* challenge the user has not completed, with nothing else running for the
\* user, returns 'correct', the challenge is then among the completed
\* challenges of get_user_progress, and challenges_completed is exactly 1
\* higher than before
CorrectAnswerCountsOnce ==
    \A k \in Done :
        ( /\ k.registered /\ ~k.completed /\ ~k.fault
          /\ k.company = "none"
          /\ Accepted(k.challenge_id, k.flag) )
        => /\ k.result = "correct"
           /\ k.challenge_id \in CompletedChallenges(progress, k.user_id)
           /\ statistics[k.user_id].challenges_completed = k.base + 1

\* the calls that end in the step
Ending == {k \in BagToSet(tasks') : k.pc = "done"}

RowsLike(P, k) ==
    {r \in P : /\ r.user_id = k.user_id /\ r.challenge_id = k.challenge_id
               /\ r.flag_submitted = k.flag}

\* C6: in a store where the user's total_attempts is the number of the user's
\* progress rows, a check_flag call that returns 'incorrect', nothing else
\* running for its user meanwhile, leaves exactly one progress
\* row for its text; it raises total_attempts and incorrect_attempts by 1
\* each when its text is new, and leaves both unchanged when the row for its
\* text was there already
RepeatedIncorrectIsNotCounted ==
    [][\A k \in Ending :
          LET now == statistics[k.user_id]
              then == statistics'[k.user_id]
              d == IF k.inserted THEN 1 ELSE 0
          IN ( /\ k.result = "incorrect" /\ k.company = "none"
               /\ now.total_attempts + d = Cardinality(RowsOf(k.user_id)) )
             =>
                 /\ Cardinality(RowsLike(progress', k)) = 1
                 /\ then.total_attempts = now.total_attempts + d
                 /\ then.incorrect_attempts = now.incorrect_attempts + d]_vars

\* C6 as amended: a check_flag call that returns 'incorrect' leaves exactly
\* one progress row for its text and raises total_attempts and
\* incorrect_attempts by 1 each, also when the row for its text was there
\* already
EveryIncorrectIsCounted ==
    [][\A k \in Ending :
          k.result = "incorrect" =>
              LET now == statistics[k.user_id]
                  then == statistics'[k.user_id]
              IN /\ Cardinality(RowsLike(progress', k)) = 1
                 /\ then.total_attempts = now.total_attempts + 1
                 /\ then.incorrect_attempts = now.incorrect_attempts + 1]_vars

\* the same incorrect text has been submitted again and counted again
RepeatedIncorrectWitness ==
    \E k \in Done :
        /\ k.result = "incorrect" /\ ~k.inserted
        /\ Cardinality(RowsLike(progress, k)) = 1
        /\ statistics[k.user_id].incorrect_attempts = 2

\* C7: total_attempts moves by 1 exactly when the call recorded a new
\* progress row, and never otherwise
TotalAttemptsFollowsRows ==
    [][\A k \in Ending :
          k.result \in {"correct", "incorrect"} =>
              statistics'[k.user_id].total_attempts =
                  statistics[k.user_id].total_attempts
                      + (IF k.inserted THEN 1 ELSE 0)]_vars

\* C7 as amended: each user's total_attempts is the number of check_flag
\* calls for the user that have returned 'correct' or 'incorrect'
TotalAttemptsCountsReturns ==
    \A u \in UserIds :
        IF statistics[u].present
        THEN statistics[u].total_attempts = served[u]
        ELSE served[u] = 0

\* no call is in progress and a user has more attempts than progress rows
MoreAttemptsThanRowsWitness ==
    /\ tasks = EmptyBag
    /\ \E u \in UserIds :
           /\ statistics[u].present
           /\ statistics[u].total_attempts = 2
           /\ Cardinality(RowsOf(u)) = 1

CheckFlagTrims ==
    \A k \in Done :
        ( /\ k.registered /\ ~k.completed /\ ~k.fault
          /\ Accepted(k.challenge_id, StrStrip(k.flag)) )
        => k.result = "correct"

\* C9 as amended: the trimming is done by process_flag before it calls
\* check_flag; a message that is an accepted answer but for leading or
\* trailing whitespace is 'correct', and check_flag itself, called with a
\* text that has leading or trailing whitespace, returns 'incorrect'
ProcessFlagTrims ==
    \A k \in Done :
        (k.registered /\ ~k.completed /\ ~k.fault) =>
            /\ (k.via = "bot" /\ Accepted(k.challenge_id, StrStrip(k.raw)))
                   => k.result = "correct"
            /\ (k.via = "direct" /\ k.flag # StrStrip(k.flag))
                   => k.result = "incorrect"

\* a padded accepted answer sent through process_flag has been accepted
PaddedMessageWitness ==
    \E k \in Done :
        /\ k.via = "bot" /\ k.raw # StrStrip(k.raw)
        /\ k.result = "correct"

\* C10: from the empty store, register_user(42); check_flag(42, 0,
\* "flag{wrong}"); check_flag(42, 0, "FLAG{PFA}"); check_flag(42, 0,
\* "FLAG{PFA}") return 'incorrect' with total_attempts = 1, then 'correct'
\* with challenges_completed = 1 and total_attempts = 2, then
\* 'already_completed' with both unchanged
ScenarioOutcome ==
    /\ scenario = "s2" =>
           /\ \A k \in Done : k.result = "incorrect"
           /\ statistics[42].total_attempts = 1
    /\ scenario = "s3" =>
           /\ \A k \in Done : k.result = "correct"
           /\ statistics[42].challenges_completed = 1
           /\ statistics[42].total_attempts = 2
    /\ scenario = "s4" =>
           /\ \A k \in Done : k.result = "already_completed"
           /\ statistics[42].challenges_completed = 1
           /\ statistics[42].total_attempts = 2

\* the third check_flag of the scenario has returned
ScenarioWitness ==
    scenario = "s4" /\ Done # {}

\* row a does not sort after row b by completions, then by the earliest
\* correct submission
EarlierSolverFirst(a, b) ==
    /\ a.challenges_completed >= b.challenges_completed
    /\ a.challenges_completed = b.challenges_completed =>
           \/ b.first_completion.null
           \/ /\ ~a.first_completion.null
              /\ a.first_completion.at <= b.first_completion.at

\* C11: in the ranking the leaderboard handler presents, rows are ordered by
\* challenges_completed descending, among rows equal in it the one with the
\* earlier first correct submission stands first, and no row has zero
\* completions
ShownEarlierSolverFirst ==
    reply.op = "leaderboard" =>
        LET s == reply.shown
        IN /\ \A i, j \in 1..Len(s) : i < j => EarlierSolverFirst(s[i], s[j])
           /\ \A i \in 1..Len(s) : s[i].challenges_completed > 0

\* C11 as amended: the sequence Database.get_leaderboard returns is ordered
\* that way; the handler shows the same rows sorted by challenges_completed
\* descending and then total_attempts ascending, the earlier first correct
\* submission deciding only among rows equal in both; no row has zero
\* completions
LeaderboardOrders ==
    reply.op = "leaderboard" =>
        LET v == reply.value
            s == reply.shown
        IN /\ ~reply.raised
           /\ \A i, j \in 1..Len(v) : i < j => EarlierSolverFirst(v[i], v[j])
           /\ \A i \in 1..Len(v) : v[i].challenges_completed > 0
           /\ Len(s) = Len(v) /\ Range(s) = Range(v)
           /\ \A i, j \in 1..Len(s) : i < j =>
                  /\ s[i].challenges_completed >= s[j].challenges_completed
                  /\ s[i].challenges_completed = s[j].challenges_completed =>
                         /\ s[i].total_attempts <= s[j].total_attempts
                         /\ s[i].total_attempts = s[j].total_attempts =>
                                EarlierSolverFirst(s[i], s[j])

\* the handler shows the later solver first: it made fewer attempts
LaterSolverShownFirst ==
    /\ reply.op = "leaderboard"
    /\ Len(reply.shown) = 2
    /\ reply.shown[1].challenges_completed = reply.shown[2].challenges_completed
    /\ reply.shown[1].first_completion.at > reply.shown[2].first_completion.at
    /\ reply.value[1] = reply.shown[2]

\* C12: in every state of the store a user has a users row exactly when it
\* has a statistics row, and a statistics row that appears has every counter
\* at zero
UsersAndStatisticsTogether ==
    [][/\ \A u \in UserIds : users[u].present <=> statistics[u].present
       /\ \A u \in UserIds : users'[u].present <=> statistics'[u].present
       /\ \A u \in UserIds :
              (~statistics[u].present /\ statistics'[u].present) =>
                  statistics'[u] = ZeroStatistics]_vars

\* one user is registered, with zeroed statistics, and the other is not
FreshlyRegisteredWitness ==
    /\ users[42].present /\ statistics[42] = ZeroStatistics
    /\ ~users[SampleUser].present /\ ~statistics[SampleUser].present

\* C13: the register handler's register_user call returns true exactly when
\* it created the user, and for a user already registered and active it
\* returns false and the handler answers 'already registered'
RegisterTellsNewFromKnown ==
    reply.op = "register" =>
        LET was == reply.before.users[reply.user_id]
            known == was.present /\ was.is_active
        IN /\ reply.success <=> (~known /\ reply.failure = 0)
           /\ known => reply.text = "Ya estabas registrado"

\* C14: registering a user that has a users row changes of that row only
\* username, full_name and is_active, and leaves the registration date, all
\* statistics, all progress rows and the other users' rows as they were
ReRegistrationFrame ==
    reply.op = "register" =>
        LET u == reply.user_id
            was == reply.before
        IN was.users[u].present =>
               /\ users[u].registration_date = was.users[u].registration_date
               /\ users[u].present /\ users[u].is_active
               /\ reply.success =>
                      /\ users[u].full_name = reply.full_name
                      /\ users[u].username = Username(u)
               /\ ~reply.success => users[u] = was.users[u]
               /\ statistics = was.statistics
               /\ progress = was.progress
               /\ \A v \in UserIds \ {u} : users[v] = was.users[v]

\* a user with attempts on record has registered again, later, under
\* another name
ReRegisteredWitness ==
    /\ reply.op = "register" /\ reply.success
    /\ reply.before.users[reply.user_id].present
    /\ reply.before.users[reply.user_id].full_name # reply.full_name
    /\ clock > users[reply.user_id].registration_date
    /\ statistics[reply.user_id].total_attempts > 0
    /\ RowsOf(reply.user_id) # {}

\* C15: no operation of the ledger raises on a store failure: check_flag
\* returns 'error', register_user and init_db false, get_leaderboard the
\* empty list, get_user_progress no stats and no completed challenges,
\* get_admin_stats zero counts and no challenge statistics
NoStoreFailureEscapes ==
    /\ \A k \in Done : k.fault => k.result = "error"
    /\ reply.op = "register" => (reply.failure # 0 => ~reply.success)
    /\ reply.op \in {"init_db", "leaderboard", "get_user_progress",
                      "get_admin_stats"} =>
           /\ ~reply.raised
           /\ reply.failed =>
                  reply.value =
                      CASE reply.op = "init_db" -> FALSE
                        [] reply.op = "leaderboard" -> << >>
                        [] reply.op = "get_user_progress" ->
                               [stats |-> NoRow,
                                completed_challenges |-> << >>]
                        [] reply.op = "get_admin_stats" ->
                               [total_users |-> 0, active_users |-> 0,
                                challenge_stats |-> {}]

\* the ranking query failed while there was somebody to rank
FailedRankingWitness ==
    /\ reply.op = "leaderboard" /\ reply.failed
    /\ Entrants # {}

\* C16: the message process_flag sends when check_flag returned 'error' is
\* not the message it sends for an incorrect flag
FailureReplyDiffersFromIncorrect ==
    (reply.op = "process_flag" /\ reply.result = "error") =>
        reply.text # "FLAG INCORRECTA. Intenta de nuevo."

\* C20: execute_transaction, as register_user runs it, returns true exactly
\* when no statement failed, then with the effects of all its statements in
\* the store, and otherwise leaves the store as it was before the batch
TransactionAllOrNothing ==
    reply.op = "register" =>
        LET u == reply.user_id
            was == reply.before
        IN /\ reply.success <=> reply.failure = 0
           /\ reply.success =>
                  /\ users[u].present /\ users[u].full_name = reply.full_name
                  /\ statistics[u].present
           /\ ~reply.success =>
                  users = was.users /\ statistics = was.statistics

\* the second statement of the batch failed for a new user
SecondStatementFailedWitness ==
    /\ reply.op = "register" /\ reply.failure = 2
    /\ ~reply.before.users[reply.user_id].present

\* the progress rows of one (user, challenge) pair
RowsOfPair(P, u, c) ==
    {r \in P : r.user_id = u /\ r.challenge_id = c}

\* C17: under any interleaving a check_flag step changes the statistics row
\* of its own user only and the progress rows of its own (user, challenge)
\* pair only, and the result of a call follows from its own text and from
\* whether its own pair had a correct row when it looked
NoCrossTalk ==
    [][/\ (users' = users /\ sample_pc' = sample_pc) =>
              /\ \A v \in UserIds :
                     statistics'[v] # statistics[v] =>
                         \E k \in Running :
                             /\ k.pc = "update" /\ k.user_id = v
                             /\ CopiesIn(k, tasks') < CopiesIn(k, tasks)
              /\ \A v \in UserIds, c \in DOMAIN CHALLENGES :
                     RowsOfPair(progress', v, c) # RowsOfPair(progress, v, c) =>
                         \E k \in Running :
                             /\ k.pc = "insert"
                             /\ k.user_id = v /\ k.challenge_id = c
                             /\ CopiesIn(k, tasks') < CopiesIn(k, tasks)
       /\ \A k \in Done :
              k.result # "error" =>
                  k.result = IF k.completed THEN "already_completed"
                             ELSE IF IsCorrect(k.challenge_id, k.flag)
                             THEN "correct"
                             ELSE "incorrect"]_vars

\* a call of one user returns while a call of the other user is between
\* its INSERT and its UPDATE
InterleavedUsersWitness ==
    \E k, j \in Running :
        /\ k.user_id # j.user_id
        /\ k.pc = "update" /\ k.inserted
        /\ j.pc = "done" /\ j.result \in {"correct", "incorrect"}

\* the pool under the operations of DatabaseManager
NextPool ==
    \/ NoneEnded /\ Initialize
    \/ NoneEnded /\ Close
    \/ NoneEnded /\ \E t \in Clients, op \in StoreOperations : Request(t, op)
    \/ NoneEnded /\ \E t \in Clients : Acquire(t)
    \/ NoneEnded /\ \E t \in Clients : Leave(t)
    \/ \E t \in Clients : Finish(t)

SpecPool == Init /\ [][NextPool]_vars

\* test_performance: the pool is there and every coroutine runs
\* test_connection once
InitPerformance ==
    /\ users = [u \in UserIds |-> NoRow]
    /\ statistics = [u \in UserIds |-> NoRow]
    /\ progress = {}
    /\ tasks = EmptyBag
    /\ sample_pc = "idle"
    /\ calls = 0
    /\ served = [u \in UserIds |-> 0]
    /\ scenario = "off"
    /\ clock = 0
    /\ reply = NoReply
    /\ pool = [open |-> TRUE, max_size |-> MaxConnections, held |-> {}]
    /\ clients = [t \in Clients |-> Idle]
    /\ schema = Tables \cup Indexes
    /\ user_data = NoData
    /\ sent = << >>
    /\ reading = NoRead
    /\ submitting = [u \in UserIds |-> NoChallenge]
    /\ conversation = [u \in UserIds |-> End]
    /\ environ = SetTo(<<"4", "2">>)

NextPerformance ==
    \/ \E t \in Clients : Request(t, "get_connection")
    \/ \E t \in Clients : Acquire(t)
    \/ \E t \in Clients : Leave(t)

\* the event loop runs every coroutine that can run
SpecPerformance ==
    /\ InitPerformance
    /\ [][NextPerformance]_vars
    /\ \A t \in Clients :
           /\ WF_vars(Request(t, "get_connection"))
           /\ WF_vars(Acquire(t))
           /\ WF_vars(Leave(t))

\* C18: the connections checked out are those of the operations between
\* their acquire and their exit, whether the statement raised or not: they
\* are at most max_connections, and none is out when no operation is in
\* flight
ConnectionsAreReleased ==
    /\ Held = {t \in Clients : clients[t].pc = "hold"}
    /\ Cardinality(Held) <= MaxConnections
    /\ (\A t \in Clients : clients[t].pc \in {"idle", "done"}) => Held = {}

\* an operation has left on an exception while every other connection of
\* the pool is out and a coroutine waits for one
RaisedUnderLoadWitness ==
    /\ \E t \in Clients :
           /\ clients[t].pc = "done" /\ clients[t].raised
           /\ clients[t].error = "PostgresError"
    /\ Cardinality(Held) = MaxConnections - 1
    /\ \E t \in Clients : clients[t].pc = "acquire"

\* C19: with more coroutines than max_connections in get_connection, every
\* coroutine eventually has had a connection, run its query and given the
\* connection back, and has the query's result unless the store failed it
EveryTaskCompletes ==
    <>(/\ \A t \in Clients :
              /\ clients[t].pc = "done"
              /\ ~clients[t].raised => clients[t].value = 1
       /\ Held = {})

\* the pool's connections are all out and every other coroutine waits in
\* get_connection for one
WaitingForConnectionWitness ==
    /\ NumClients > MaxConnections
    /\ Cardinality(Held) = MaxConnections
    /\ \A t \in Clients \ Held :
           clients[t].pc = "acquire" /\ clients[t].op = "get_connection"

\* C21: init_db run on a store that has its schema and holds rows returns
\* true unless the store fails a statement, and leaves every users,
\* statistics and progress row and the schema as they were
InitDbKeepsRows ==
    reply.op = "init_db" =>
        /\ ~reply.failed => reply.value = TRUE
        /\ users = reply.before.users
        /\ statistics = reply.before.statistics
        /\ progress = reply.before.progress
        /\ schema = reply.before.schema

\* init_db has returned true on a store with a user, its statistics and a
\* progress row
InitDbOnHistoryWitness ==
    /\ reply.op = "init_db" /\ reply.value = TRUE
    /\ users[42].present /\ statistics[42].total_attempts > 0
    /\ RowsOf(42) # {}

\* the unlock schedule asked at any instant
NextSchedule ==
    \/ \E c \in DOMAIN CHALLENGES, now \in Times : IsChallengeAvailableCall(c, now)
    \/ Deliver

SpecSchedule == Init /\ [][NextSchedule]_vars

\* C22: is_challenge_available(c) at time now is true exactly when now is
\* at or after START_DATE - 1 day for c = 0 and START_DATE + (c - 1) days
\* for c >= 1; the unlock times strictly increase with c, and a challenge
\* available at one time is available at every later time
ScheduleIsStaggered ==
    /\ reply.op = "is_challenge_available" =>
           LET c == reply.challenge_id
           IN /\ reply.value <=>
                     IF c = 0 THEN reply.now >= StartDate - Day
                     ELSE reply.now >= StartDate + (c - 1) * Day
              /\ reply.value =>
                     \A later \in Times :
                         later >= reply.now => IsChallengeAvailable(c, later)
    /\ \A c \in DOMAIN CHALLENGES :
           (c + 1) \in DOMAIN CHALLENGES =>
               GetChallengeAvailabilityDate(c) < GetChallengeAvailabilityDate(c + 1)

\* the tutorial is found available before START_DATE while challenge 1 is
\* not
TutorialBeforeStartWitness ==
    /\ reply.op = "is_challenge_available" /\ reply.challenge_id = 0
    /\ reply.value /\ reply.now < StartDate
    /\ ~IsChallengeAvailable(1, reply.now)

\* C23: the catalog has exactly 6 entries with the ids 0..5, each with at
\* least one accepted answer and none of them empty, and it is the catalog
\* every returned call was judged against
CatalogIsFixed ==
    /\ DOMAIN CHALLENGES = 0 .. 5
    /\ Cardinality(DOMAIN CHALLENGES) = 6
    /\ \A id \in DOMAIN CHALLENGES :
           /\ Len(CHALLENGES[id].flag) >= 1
           /\ \A i \in 1 .. Len(CHALLENGES[id].flag) :
                  CHALLENGES[id].flag[i] # << >>
    /\ \A k \in Done :
           k.result = "correct" =>
               StrUpper(k.flag) \in
                   {StrUpper(f) : f \in Range(CHALLENGES[k.challenge_id].flag)}

\* a call for the last challenge of the catalog has returned 'correct'
LastChallengeSolvedWitness ==
    \E k \in Done : k.challenge_id = 5 /\ k.result = "correct"

\* C24: no two progress rows share (user_id, challenge_id, flag_submitted),
\* and a call that returned 'incorrect', which is every call with a text
\* that is not accepted for a challenge its user has not completed unless
\* the store failed it, has the one row of its text, marked incorrect
AttemptRowsAreUnique ==
    /\ \A r, q \in progress :
           ( /\ r.user_id = q.user_id /\ r.challenge_id = q.challenge_id
             /\ r.flag_submitted = q.flag_submitted ) => r = q
    /\ \A k \in Done :
           k.result = "incorrect" =>
               /\ Cardinality(RowsLike(progress, k)) = 1
               /\ \A r \in RowsLike(progress, k) : ~r.is_correct
    /\ \A k \in Done :
           ( /\ ~k.completed /\ ~IsCorrect(k.challenge_id, k.flag)
             /\ k.result # "error" ) => k.result = "incorrect"

\* a second incorrect text for the same challenge has got its own row
TwoIncorrectTextsWitness ==
    \E k \in Done :
        /\ k.result = "incorrect" /\ k.inserted
        /\ \E r \in progress :
               /\ r.user_id = k.user_id /\ r.challenge_id = k.challenge_id
               /\ r.flag_submitted # k.flag /\ ~r.is_correct

\* accepted answers as users type them: the first accepted answer, and the
\* last one in lower case
VariantTexts(c) ==
    LET fl == CHALLENGES[c].flag
    IN {fl[1], StrLower(fl[Len(fl)])}

\* a registered user sends accepted answers, the process_flag calls
\* interleaving
NextVariants ==
    \/ \E c \in SubmittedChallenges :
           \E raw \in VariantTexts(c) : ProcessFlag(42, c, raw)
    \/ \E k \in Running : CheckFlagInsert(k)
    \/ \E k \in Running : CheckFlagUpdate(k)
    \/ \E k \in Running : Return(k)
    \/ Deliver

SpecVariants == InitBoard /\ [][NextVariants]_vars

\* C25: every correct progress row written through process_flag holds the
\* first accepted answer of its challenge, and under any interleaving of
\* process_flag calls there is at most one correct row per (user, challenge)
OneCanonicalCorrectRow ==
    /\ \A r \in progress :
           r.is_correct => r.flag_submitted = CHALLENGES[r.challenge_id].flag[1]
    /\ \A u \in UserIds, c \in DOMAIN CHALLENGES :
           Cardinality({r \in RowsOfPair(progress, u, c) : r.is_correct}) <= 1

\* a process_flag call whose message was another variant than the first
\* accepted answer returns 'correct' after a concurrent call for the same
\* challenge did
VariantAfterTwinWitness ==
    \E k \in Done :
        /\ k.via = "bot" /\ k.result = "correct" /\ k.twin_correct
        /\ StrStrip(k.raw) # k.flag

\* C26: when the store answers, get_user_progress(U) has stats exactly when
\* U is registered, and its completed_challenges are the challenges U has a
\* correct progress row for, each once, in ascending order of the id
ProgressIsExact ==
    (reply.op = "get_user_progress" /\ ~reply.failed) =>
        LET u == reply.user_id
            list == reply.value.completed_challenges
        IN /\ reply.value.stats # NoRow <=> users[u].present
           /\ {list[i] : i \in 1 .. Len(list)} =
                  {c \in DOMAIN CHALLENGES :
                      \E r \in RowsOfPair(progress, u, c) : r.is_correct}
           /\ \A i, j \in 1 .. Len(list) : i < j => list[i] < list[j]

\* a registered user's progress with two completed challenges
TwoCompletedWitness ==
    /\ reply.op = "get_user_progress" /\ ~reply.failed
    /\ reply.value.stats # NoRow
    /\ reply.value.completed_challenges = <<0, 5>>

\* what the ranking shows of a user
RankingLine(u) ==
    [full_name |-> users[u].full_name,
     challenges_completed |-> statistics[u].challenges_completed,
     total_attempts |-> statistics[u].total_attempts]

\* what the ranking shows in a row
ShownLine(row) ==
    [full_name |-> row.full_name,
     challenges_completed |-> row.challenges_completed,
     total_attempts |-> row.total_attempts]

\* C27: when the store answers, the ranking the leaderboard handler shows
\* is the first 10 entries of the list of all users with a completion,
\* ordered by challenges completed descending and then by fewer total
\* attempts: one line per such user up to 10, in that order, and no user
\* left out who ranks before a shown one
DisplayedIsTopTen ==
    (reply.op = "leaderboard" /\ ~reply.failed) =>
        LET s == reply.shown
            ShownAs(line) == {i \in 1 .. Len(s) : ShownLine(s[i]) = line}
            UsersAs(line) == {u \in Entrants : RankingLine(u) = line}
        IN /\ Len(s) = IF Cardinality(Entrants) < LeaderboardLimit
                       THEN Cardinality(Entrants) ELSE LeaderboardLimit
           /\ \A i, j \in 1 .. Len(s) : i < j =>
                  /\ s[i].challenges_completed >= s[j].challenges_completed
                  /\ s[i].challenges_completed = s[j].challenges_completed =>
                         s[i].total_attempts <= s[j].total_attempts
           /\ \A i \in 1 .. Len(s) :
                  Cardinality(ShownAs(ShownLine(s[i]))) <=
                      Cardinality(UsersAs(ShownLine(s[i])))
           /\ \A u \in Entrants :
                  Cardinality(ShownAs(RankingLine(u))) <
                      Cardinality(UsersAs(RankingLine(u))) =>
                      \A i \in 1 .. Len(s) :
                          ~ \/ statistics[u].challenges_completed >
                                   s[i].challenges_completed
                            \/ /\ statistics[u].challenges_completed =
                                      s[i].challenges_completed
                               /\ statistics[u].total_attempts <
                                      s[i].total_attempts

\* the circular message: users register, time passes, and the admin and
\* another user send /broadcast and press the buttons
NextBroadcast ==
    \/ \E u \in UserIds, fn \in FullNames : Register(u, fn)
    \/ Tick
    \/ \E sender \in UserIds, args \in BroadcastArgs :
           BroadcastMessage(sender, args)
    \/ \E sender \in UserIds :
           \E data \in {"confirm_broadcast", "cancel_broadcast"} :
               ConfirmBroadcast(sender, data)
    \/ Deliver

SpecBroadcast == Init /\ [][NextBroadcast]_vars

\* C28: /broadcast from an admin with a message text, a user being
\* registered and the store answering, reaches the preview and keeps the
\* message and the registered users for the confirmation; the confirmed
\* sending attempts every kept user once and reports counts that add up to
\* their number; after a cancel nothing has been sent
BroadcastReachesEveryUser ==
    /\ ( /\ reply.op = "broadcast" /\ reply.sender \in AdminIds
         /\ reply.args # << >> /\ ~reply.failed
         /\ \E u \in UserIds : users[u].present ) =>
           /\ reply.text = "VISTA PREVIA DEL MENSAJE"
           /\ {user_data.broadcast_users[i] :
                   i \in 1 .. Len(user_data.broadcast_users)} =
                  {u \in UserIds : users[u].present}
    /\ ( /\ reply.op = "confirm_broadcast"
         /\ reply.text = "REPORTE DE ENVIO COMPLETADO" ) =>
           /\ reply.success_count + reply.failed_count = reply.total
           /\ \A i, j \in 1 .. Len(sent) :
                  i # j => sent[i].chat_id # sent[j].chat_id
    /\ ( /\ reply.op = "confirm_broadcast"
         /\ reply.data = "cancel_broadcast" ) => sent = << >>

\* C29: check_flag does not look at the unlock schedule: whatever the time
\* of the call, a call the store did not fail returns 'already_completed'
\* when its pair had a correct row, else 'correct' for an accepted text and
\* 'incorrect' for any other, and a call that returned 'correct' for a
\* challenge still locked has its correct row and is counted as a completion
ScheduleIsNotEnforced ==
    \A k \in Done :
        /\ k.result # "error" =>
               k.result = IF k.completed THEN "already_completed"
                          ELSE IF Accepted(k.challenge_id, k.flag) THEN "correct"
                          ELSE "incorrect"
        /\ (k.result = "correct" /\ ~IsChallengeAvailable(k.challenge_id, clock)) =>
               /\ \E r \in RowsLike(progress, k) : r.is_correct
               /\ statistics[k.user_id].challenges_completed >= 1
               /\ k.challenge_id \in CompletedChallenges(progress, k.user_id)

\* an accepted answer for the last challenge, sent before it unlocks, has
\* been credited
LockedChallengeSolvedWitness ==
    \E k \in Done :
        /\ k.challenge_id = 5 /\ ~IsChallengeAvailable(5, clock)
        /\ IsChallengeAvailable(0, clock)
        /\ k.result = "correct"

\* C30: of the check_flag calls for one (user, challenge), at most one
\* returns 'correct': a call does not return 'correct' when a call with the
\* same arguments that ran concurrently with it already has
CorrectIsToldOnce ==
    \A k \in Done :
        k.result = "correct" => ~k.twin_correct

\* C31: once a correct progress row for a (user, challenge) is in the store,
\* no check_flag step adds a progress row for that (user, challenge), also
\* when the call was in flight before the correct row was recorded
NoRowAfterCorrectRow ==
    [][sample_pc' = sample_pc =>
          \A u \in UserIds, c \in DOMAIN CHALLENGES :
              (\E r \in RowsOfPair(progress, u, c) : r.is_correct) =>
                  RowsOfPair(progress', u, c) = RowsOfPair(progress, u, c)]_vars

\* C32: in every state of the store each statistics row has total_attempts =
\* correct_attempts + incorrect_attempts, and no step removes a statistics
\* row or lowers one of its three counters
CountersAddUp ==
    [][\A u \in UserIds :
          LET now == statistics[u]
              then == statistics'[u]
          IN /\ now.present =>
                    now.total_attempts =
                        now.correct_attempts + now.incorrect_attempts
             /\ then.present =>
                    then.total_attempts =
                        then.correct_attempts + then.incorrect_attempts
             /\ now.present =>
                    /\ then.present
                    /\ then.total_attempts >= now.total_attempts
                    /\ then.correct_attempts >= now.correct_attempts
                    /\ then.incorrect_attempts >= now.incorrect_attempts]_vars

\* a user has one correct and one incorrect attempt counted, the two calls
\* having overlapped
BothCountersRaisedWitness ==
    /\ statistics[42].present
    /\ statistics[42].correct_attempts = 1
    /\ statistics[42].incorrect_attempts = 1
    /\ \E k \in Done : k.user_id = 42 /\ k.company = "other"

\* a registered user's progress is read while check_flag calls for the user
\* are in progress
NextProgress ==
    \/ \E c \in SubmittedChallenges :
           \E flag \in LedgerTexts(c) : CheckFlagDirect(42, c, flag)
    \/ \E k \in Running : CheckFlagInsert(k)
    \/ \E k \in Running : CheckFlagUpdate(k)
    \/ \E k \in Running : Return(k)
    \/ GetUserProgressStats(42)
    \/ GetUserProgressCompleted
    \/ Deliver

SpecProgress == InitBoard /\ [][NextProgress]_vars

\* C33: a result of get_user_progress that has stats has as many completed
\* challenges as stats.challenges_completed says, also when check_flag calls
\* for the user run during the call
ProgressIsConsistent ==
    (reply.op = "get_user_progress" /\ reply.value.stats # NoRow) =>
        reply.value.stats.challenges_completed =
            Len(reply.value.completed_challenges)

\* C34: when at most 10 users have challenges_completed > 0 and the store
\* answers, get_leaderboard returns one row per such user, also for users
\* equal in full_name, challenges_completed and total_attempts
OneRowPerRankedUser ==
    ( /\ reply.op = "leaderboard" /\ ~reply.failed
      /\ Cardinality(Entrants) <= LeaderboardLimit ) =>
        Len(reply.value) = Cardinality(Entrants)

\* C35: a check_flag call for a user id that has no users row returns
\* 'error', whatever its text, and the store holds no progress row and no
\* statistics row for such a user id
UnregisteredPersistsNothing ==
    /\ \A k \in Done :
           ~users[k.user_id].present =>
               k.result = "error" /\ ~k.inserted
    /\ \A u \in UserIds :
           ~users[u].present => RowsOf(u) = {} /\ ~statistics[u].present

\* an accepted answer sent for a user id without a users row has been
\* turned down by the store's foreign key, no statement having failed
\* otherwise
UnregisteredAcceptedAnswerWitness ==
    \E k \in Done :
        /\ ~users[k.user_id].present /\ ~k.fault
        /\ Accepted(k.challenge_id, k.flag)
        /\ k.result = "error"

\* the pool is there, with a single connection or with the default number
InitLedgerPool ==
    /\ users = [u \in UserIds |-> NoRow]
    /\ statistics = [u \in UserIds |-> NoRow]
    /\ progress = {}
    /\ tasks = EmptyBag
    /\ sample_pc = "idle"
    /\ calls = 0
    /\ served = [u \in UserIds |-> 0]
    /\ scenario = "off"
    /\ clock = 0
    /\ reply = NoReply
    /\ \E size \in {1, MaxConnections} :
           pool = [open |-> TRUE, max_size |-> size, held |-> {}]
    /\ clients = [t \in Clients |-> Idle]
    /\ schema = Tables \cup Indexes
    /\ user_data = NoData
    /\ sent = << >>
    /\ reading = NoRead
    /\ submitting = [u \in UserIds |-> NoChallenge]
    /\ conversation = [u \in UserIds |-> End]
    /\ environ = SetTo(<<"4", "2">>)

\* every caller runs one operation of the ledger
NextLedgerPool ==
    \/ \E t \in Callers, call \in LedgerOperations, is_correct \in BOOLEAN :
           Call(t, call, is_correct)
    \/ \E t \in Callers : StatementAcquire(t)
    \/ \E t \in Callers : StatementLeave(t)

SpecLedgerPool == InitLedgerPool /\ [][NextLedgerPool]_vars

\* C36: a ledger operation does not wait for a connection while it holds
\* one, and the connections out are those of the operations inside a
\* statement, one each; so, also with a pool of a single connection, whenever
\* an operation waits for a connection either one is free or an operation
\* that holds one can finish its statement and give it back
NoNestedConnections ==
    /\ \A t \in Callers : clients[t].pc = "acquire" => t \notin Held
    /\ Held = {t \in Callers : clients[t].pc = "hold"}
    /\ Cardinality(Held) <= pool.max_size
    /\ (\E t \in Callers : clients[t].pc = "acquire") =>
           \/ Cardinality(Held) < pool.max_size
           \/ \E t \in Held : clients[t].pc = "hold"

\* with a pool of a single connection, a check_flag call is inside its
\* last statement while every other caller waits for the connection
SingleConnectionSharedWitness ==
    /\ pool.max_size = 1
    /\ \E t \in Callers :
           /\ clients[t].pc = "hold" /\ clients[t].call = "check_flag"
           /\ clients[t].step = 3
           /\ \A other \in Callers \ {t} : clients[other].pc = "acquire"

\* every caller runs one check_flag call
NextCheckFlagPool ==
    \/ \E t \in Callers, is_correct \in BOOLEAN : Call(t, "check_flag", is_correct)
    \/ \E t \in Callers : StatementAcquire(t)
    \/ \E t \in Callers : StatementLeave(t)

\* each statement completes or fails by its command timeout, and the pool
\* grants the connections given back to whoever waits, every waiter in turn
SpecCheckFlagPool ==
    /\ InitLedgerPool
    /\ [][NextCheckFlagPool]_vars
    /\ \A t \in Callers :
           /\ SF_vars(StatementAcquire(t))
           /\ WF_vars(StatementLeave(t))

\* C37: every check_flag call eventually returns 'correct',
\* 'already_completed', 'incorrect' or 'error', whatever the number of calls
\* under way, when each statement completes or fails and the pool grants
\* the connections given back fairly
EveryCheckFlagReturns ==
    \A t \in Callers :
        (clients[t].pc \in {"acquire", "hold"}) ~>
            ( /\ clients[t].pc = "done"
              /\ clients[t].result \in
                     {"correct", "already_completed", "incorrect", "error"} )

\* with a pool of a single connection, a check_flag call between two of its
\* statements waits for the connection another call holds
WaitingBetweenStatementsWitness ==
    /\ pool.max_size = 1
    /\ \E t, other \in Callers :
           /\ clients[t].pc = "acquire" /\ clients[t].step = 2
           /\ clients[other].pc = "hold" /\ clients[other].step = 3

\* user 42 has solved challenges 1 to 4, each at its first attempt, and the
\* tutorial and the last challenge are still open
InitCapture ==
    /\ users = [u \in UserIds |->
                   IF u = 42 THEN UserRow(Username(u), "Ana", 0) ELSE NoRow]
    /\ statistics = [u \in UserIds |->
                        IF u = 42
                        THEN [ZeroStatistics EXCEPT !.challenges_completed = 4,
                                                    !.total_attempts = 4,
                                                    !.correct_attempts = 4]
                        ELSE NoRow]
    /\ progress = {[user_id |-> 42, challenge_id |-> c,
                    flag_submitted |-> CHALLENGES[c].flag[1],
                    is_correct |-> TRUE, submission_date |-> 0] : c \in 1 .. 4}
    /\ tasks = EmptyBag
    /\ sample_pc = "idle"
    /\ calls = 0
    /\ served = [u \in UserIds |-> IF u = 42 THEN 4 ELSE 0]
    /\ scenario = "off"
    /\ clock = 0
    /\ reply = NoReply
    /\ pool = NoPool
    /\ clients = [t \in Clients |-> Idle]
    /\ schema = Tables \cup Indexes
    /\ user_data = NoData
    /\ sent = << >>
    /\ reading = NoRead
    /\ submitting = [u \in UserIds |-> NoChallenge]
    /\ conversation = [u \in UserIds |-> End]
    /\ environ = SetTo(<<"4", "2">>)

\* the user sends answers for the two open challenges, in either order
NextCapture ==
    \/ /\ tasks = EmptyBag
       /\ \E c \in SubmittedChallenges :
              \E raw \in BoardTexts(c) : ProcessFlag(42, c, raw)
    \/ \E k \in Running : CheckFlagInsert(k)
    \/ \E k \in Running : CheckFlagUpdate(k)
    \/ \E k \in Running : Return(k)
    \/ Deliver
    \/ tasks = EmptyBag /\ Tick

SpecCapture == InitCapture /\ [][NextCapture]_vars

\* C39: the reply of process_flag to a correct submission after which the
\* user has a correct row for each of the six challenges is the final
\* message, whichever challenge was the last one to be solved
FinalMessageOnSixth ==
    ( /\ reply.op = "process_flag" /\ reply.result = "correct"
      /\ CompletedChallenges(progress, 42) = DOMAIN CHALLENGES ) =>
        reply.text = "FLAG CORRECTA. FUGITIVO CAPTURADO"

\* the flag-submission conversation of two registered users: the
\* application handles one update at a time
NextSubmit ==
    \/ /\ tasks = EmptyBag
       /\ \E u \in UserIds, c \in SubmittedChallenges : StartSubmitWithId(u, c)
    \/ /\ tasks = EmptyBag
       /\ \E u \in UserIds, raw \in LedgerTexts(0) : ProcessFlagMessage(u, raw)
    \/ \E k \in Running : CheckFlagInsert(k)
    \/ \E k \in Running : CheckFlagUpdate(k)
    \/ \E k \in Running : Return(k)
    \/ Deliver
    \/ tasks = EmptyBag /\ \E u \in UserIds : Cancel(u)
    \/ tasks = EmptyBag /\ ConfirmBroadcast(42, "cancel_broadcast")

SpecSubmit == InitBoard /\ [][NextSubmit]_vars

AdminEnvirons == {Unset, SetTo(<<"4", "2">>), SetTo(<<"4", "2", "7">>)}

InitAdmin ==
    /\ users = [u \in UserIds |-> NoRow]
    /\ statistics = [u \in UserIds |-> NoRow]
    /\ progress = {}
    /\ tasks = EmptyBag
    /\ sample_pc = "idle"
    /\ calls = 0
    /\ served = [u \in UserIds |-> 0]
    /\ scenario = "s0"
    /\ clock = 0
    /\ reply = NoReply
    /\ pool = NoPool
    /\ clients = [t \in Clients |-> Idle]
    /\ schema = Tables \cup Indexes
    /\ user_data = NoData
    /\ sent = << >>
    /\ reading = NoRead
    /\ submitting = [u \in UserIds |-> NoChallenge]
    /\ conversation = [u \in UserIds |-> End]
    /\ environ \in AdminEnvirons

\* the administrative commands: users register, time passes, and every
\* user sends /admin_stats and /broadcast and presses the two buttons
NextAdmin ==
    \/ \E u \in UserIds, fn \in FullNames : Register(u, fn)
    \/ Tick
    \/ \E sender \in UserIds : AdminStats(sender)
    \/ \E sender \in UserIds, args \in BroadcastArgs :
           BroadcastMessage(sender, args)
    \/ \E sender \in UserIds :
           \E data \in {"confirm_broadcast", "cancel_broadcast"} :
               ConfirmBroadcast(sender, data)
    \/ Deliver

SpecAdmin == InitAdmin /\ [][NextAdmin]_vars

\* the users the start-up value of ADMIN_IDS lists
Listed == IF environ = SetTo(<<"4", "2">>) THEN {42} ELSE {}

\* C40: a user ADMIN_IDS does not list is refused by admin_stats,
\* broadcast_message and confirm_broadcast: the reply carries no statistics,
\* no message is stored and none is sent; with ADMIN_IDS unset every user
\* is refused
OnlyAdminsAdminister ==
    [][(/\ reply = NoReply
        /\ reply'.op \in {"admin_stats", "broadcast", "confirm_broadcast"}
        /\ reply'.sender \notin Listed) =>
           /\ reply'.text = "No tienes permisos"
           /\ "stats" \notin DOMAIN reply'
           /\ user_data' = user_data
           /\ sent' = sent]_vars

\* with ADMIN_IDS unset and users registered, user 42 asks for the
\* administrative statistics and is refused
UnsetRefusesEveryoneWitness ==
    /\ environ = Unset
    /\ \A u \in UserIds : users[u].present
    /\ reply.op = "admin_stats" /\ reply.sender = 42
    /\ reply.text = "No tienes permisos"

====
